---- MODULE Spec2Model ----
(***************************************************************************)
(* State-machine model of the delay-and-censor engine of                   *)
(* hardware/src/AudioProcessor.cpp: the audio callback process(), the      *)
(* Whisper worker whisperThreadFunction() and the censor inside            *)
(* processTranscription().                                                 *)
(*                                                                         *)
(* Samples are exact rationals <<numerator, denominator>> in lowest terms. *)
(* Word timestamps are counted in tenths of a second.  The sample rate is  *)
(* scaled down; every length is derived from it as the code derives it.    *)
(***************************************************************************)
EXTENDS Integers, Sequences, FiniteSets, TLC

\* ------------------------------------------------------------ configuration
SampleRate == 1              \* frames per second (scaled model bound)
Channels == 2                \* Config::channels
InitialDelaySeconds == 10    \* Config::initialDelaySeconds
ChunkSeconds == 5            \* Config::chunkSeconds
TranscribeSeconds == 5       \* the literal 5 of processTranscription
ExtraCapacitySeconds == 10   \* delay buffer headroom added in initialize()
PauseMarginSeconds == 2      \* pauseThreshold = initialDelaySeconds - 2.0
PaddingBeforeTenths == 4     \* paddingBefore = 0.4 s
PaddingAfterTenths == 1      \* paddingAfter = 0.1 s
MaxFadeSamples == 480        \* std::min(480, numSamplesToCensor / 4)
EstimatedWordTenths == 3     \* estimatedEnd = estimatedStart + 0.3
MinWordHundredths == 5       \* wordEnd = std::max(wordStart + 0.05, ...)

ExtraFrames == 3             \* frames fed beyond one delay plus one chunk
CensorExtraFrames == 3       \* frames fed beyond one chunk when the censor is studied
StreamExtraFrames == 2       \* frames fed beyond one turn of the ring plus one delay
MaxTranscripts == 1          \* recognitions that may return words
RaceExtraFrames == 3         \* frames fed beyond the delay when the race is studied
MaxTranscribedWords == 2     \* longest transcription given to the aligner
MaxLyricsWords == 3          \* longest lyrics given to the aligner
MaxSegmentWords == 3         \* most cleaned words in a recognizer segment
LifeExtraFrames == 1         \* frames fed beyond one chunk in a session of the engine
LiveExtraFrames == 3         \* frames fed beyond two chunks when the wake-up is studied

Periods == {1, 2, 3}         \* config.periodSize choices (frames per callback)
CensorModes == {"Mute", "Reverse"}

\* audioBuffer.size() and processingBuffer.size()
ChunkFrames == SampleRate * ChunkSeconds
\* config.sampleRate * 5, the chunk length the worker and the censor assume
TranscribeFrames == SampleRate * TranscribeSeconds
\* (variant: the ring sized to the initial delay alone)
DelayBufferSizeNoHeadroom == SampleRate * InitialDelaySeconds
\* delayBufferSize
DelayBufferSize == SampleRate * (InitialDelaySeconds + ExtraCapacitySeconds)
\* first fill at which bufferSeconds >= initialDelaySeconds
DelayFrames == SampleRate * InitialDelaySeconds
\* fills below this have bufferSeconds < pauseThreshold
PauseFrames == SampleRate * (InitialDelaySeconds - PauseMarginSeconds)
MaxFrames == DelayFrames + ChunkFrames + ExtraFrames
CensorFrames == ChunkFrames + CensorExtraFrames
StreamFrames == DelayBufferSize + DelayFrames + StreamExtraFrames

Chans == 0 .. (Channels - 1)
Ring == 0 .. (DelayBufferSize - 1)

\* ------------------------------------------------------------ float samples
Abs(x) == IF x < 0 THEN -x ELSE x
Min(a, b) == IF a < b THEN a ELSE b
Max(a, b) == IF a > b THEN a ELSE b

RECURSIVE GCD(_, _)
GCD(a, b) == IF b = 0 THEN a ELSE GCD(b, a % b)

\* the rational n/d (d > 0) in lowest terms
Rat(n, d) ==
    LET g == GCD(Abs(n), d)
    IN  IF n = 0 THEN <<0, 1>>
        ELSE IF n > 0 THEN <<n \div g, d \div g>>
        ELSE <<-(Abs(n) \div g), d \div g>>

Zero == <<0, 1>>
RatAdd(x, y) == Rat(x[1] * y[2] + y[1] * x[2], x[2] * y[2])
\* x * (a / b)
RatScale(x, a, b) == Rat(x[1] * a, x[2] * b)

\* The captured signal: frame p of the input stream carries, in channel ch,
\* a non-zero value found nowhere else in the stream.
InputSample(p, ch) == Rat(p * Channels + ch + 1, 1)

RECURSIVE SumChannels(_, _)
SumChannels(p, ch) ==
    IF ch >= Channels THEN Zero
    ELSE RatAdd(InputSample(p, ch), SumChannels(p, ch + 1))

\* monoSample of input frame p: the channel mean
MonoSample(p) == RatScale(SumChannels(p, 0), 1, Channels)


\* ------------------------------------------------------------------- state
VARIABLES
    period,                 \* config.periodSize of the session
    censorMode,             \* config.censorMode
    audioBuffer,            \* mono accumulation buffer
    bufferWritePos,
    transcriptionInterval,
    processingBuffer,       \* snapshot handed to the worker
    bufferCaptureTime,
    delayBuffer,            \* [channel][ring index]
    delayWritePos,
    delayReadPos,
    playbackStarted,
    wasPaused,              \* the function-local static of process()
    hasNewBuffer,
    shouldStopThread,
    bufferUnderrun,
    stopPc,                 \* position of a caller of stop(): "none" before the call
    profanityCount,
    bufferMutex,            \* "free" or the context holding it
    wakeup,                 \* a bufferReady notification reached the waiting worker
    audioPc,                \* position of the audio callback
    workerPc,               \* position of the Whisper thread
    localBuffer,            \* worker's copy of the chunk
    captureTime,            \* worker's copy of bufferCaptureTime
    transcribedWords,       \* words of the chunk being censored
    idx,                    \* scan index of processTranscription
    patch,                  \* the censor loop in progress: range, position, temp
    \* AlsaAudioEngine
    captureHandle,          \* "null" or "open"
    playbackHandle,
    processor,              \* the unique_ptr holds an AudioProcessor
    running,
    engineLastError,        \* AlsaAudioEngine::lastError, "" when never set
    processorLastError,     \* AudioProcessor::lastError
    initResult,             \* what initialize() returned, "none" before the call
    startResult,            \* what the last start() returned
    shouldStop,             \* AlsaAudioEngine::shouldStop
    enginePc,               \* the control thread: "none" between calls
    processorStartResult,   \* what the last AudioProcessor::start() returned
    \* LyricsAlignment
    originalSegments,       \* word segments given to backtrackAlignment
    lyricsWords,
    alignments,             \* the (transcribed_idx, lyrics_idx) pairs
    correctedSegments,
    alignPc,                \* "ready" before the call, "done" after, "idle" if none
    \* word extraction of processTranscription()
    segmentStart,           \* t0 of the recognizer segment, in centiseconds
    segmentEnd,             \* t1 of the segment
    segmentWords,           \* number of cleaned words of the segment
    extractedWords,         \* the start and end given to each word, in seconds
    extractPc,              \* "ready" before the extraction, "done" after
    \* history variables (observations, never read by the modelled code)
    framesIn,               \* frames written to the delay line so far (absolute W)
    framesOut,              \* frames read from the delay line so far (absolute R)
    frameLog,               \* per-frame record of the last callback
    cellFrame,              \* ring index -> input frame last written there, -1 if none
    patchedFrames,          \* input frames whose ring cell the censor has written
    captureFirst,           \* input frame held in audioBuffer[0]
    lastChunk,              \* record of the last handoff
    localFirst,             \* input frame held in localBuffer[0]
    hits,                   \* hits emitted for the chunk being censored
    transcriptsLeft         \* recognitions that may still return words

configVars == <<period, censorMode>>
engineVars == <<captureHandle, playbackHandle, processor, running, engineLastError,
                processorLastError, initResult, startResult, shouldStop, enginePc,
                processorStartResult>>
alignVars == <<originalSegments, lyricsWords, alignments, correctedSegments, alignPc>>
extractVars == <<segmentStart, segmentEnd, segmentWords, extractedWords, extractPc>>
captureVars == <<audioBuffer, bufferWritePos, transcriptionInterval, captureFirst>>
handoffVars == <<processingBuffer, bufferCaptureTime, hasNewBuffer, lastChunk>>
delayVars == <<delayBuffer, patchedFrames>>
cursorVars == <<delayWritePos, delayReadPos, playbackStarted, wasPaused,
                framesIn, framesOut, frameLog, cellFrame>>
controlVars == <<shouldStopThread, bufferUnderrun, stopPc>>
syncVars == <<bufferMutex, wakeup>>
workerVars == <<localBuffer, captureTime, transcribedWords, idx, localFirst,
                hits, profanityCount, transcriptsLeft>>
vars == <<configVars, engineVars, alignVars, extractVars, patch, captureVars, handoffVars,
          delayVars, cursorVars, controlVars, syncVars, workerVars, audioPc, workerPc>>

\* no censor loop in progress
NoPatch == [stage |-> "none", c |-> 0, s |-> 0, e |-> 0, ch |-> 0, i |-> 0,
            temp |-> <<>>, written |-> {}, frames |-> {}, startOut |-> 0]

\* ------------------------------------------------------- process(): capture
\* The accumulation loop: frame i of the callback is stored while the buffer
\* has room and dropped otherwise.  base is the stream position of frame 0.
RECURSIVE Accumulate(_, _, _, _, _)
Accumulate(buf, pos, first, base, i) ==
    IF i >= period THEN [buf |-> buf, pos |-> pos, first |-> first]
    ELSE IF pos < ChunkFrames
         THEN Accumulate([buf EXCEPT ![pos] = MonoSample(base + i)], pos + 1,
                         IF pos = 0 THEN base + i ELSE first, base, i + 1)
         ELSE Accumulate(buf, pos, first, base, i + 1)

\* ---------------------------------------------------- process(): delay line
GateState(started, paused) ==
    IF ~started THEN "Warming" ELSE IF paused THEN "Paused" ELSE "Playing"

\* currentGap
CurrentGap(w, r) == (w - r + DelayBufferSize) % DelayBufferSize

\* (variant: playback started at the pause threshold)
CanStartAtPause(gap) == gap >= PauseFrames
\* (variant: a strict comparison)
CanStartLate(gap) == gap > DelayFrames
\* canPlay of the not-yet-started branch
CanStart(gap) == gap >= DelayFrames
\* (variant: the pause threshold put at the initial delay)
BelowPauseAtTarget(gap) == gap <= DelayFrames
\* bufferSeconds < pauseThreshold
BelowPause(gap) == gap < PauseFrames
\* bufferSeconds >= resumeThreshold
AtResume(gap) == gap >= DelayFrames

\* (variant: no reduction mod the ring length)
AdvanceNoWrap(pos) == pos + 1
\* next ring position
Advance(pos) == (pos + 1) % DelayBufferSize

\* (variant: the sample one position past the read cursor)
OutputSampleAhead(canPlay, buf, ch, readPos) ==
    IF canPlay THEN buf[ch][(readPos + 1) % DelayBufferSize] ELSE Zero
\* (variant: the delay line read whatever the gate says)
OutputSampleUngated(canPlay, buf, ch, readPos) == buf[ch][readPos]
\* "Read from delay buffer or output silence"
OutputSample(canPlay, buf, ch, readPos) ==
    IF canPlay THEN buf[ch][readPos] ELSE Zero

\* (variant: the read cursor advanced on every frame)
NextReadPosAlways(canPlay, readPos) == (readPos + 1) % DelayBufferSize
\* readPos at the end of the iteration
NextReadPos(canPlay, readPos) ==
    IF canPlay THEN Advance(readPos) ELSE readPos

\* One iteration of the per-frame loop, on the loop's locals st.
DelayFrame(st, base, i) ==
    LET buf1 == [ch \in Chans |->
                    [st.buf[ch] EXCEPT ![st.w] = InputSample(base + i, ch)]]
        gap == CurrentGap(st.w, st.r)
        startNow == ~st.started /\ CanStart(gap)
        pauseNow == st.started /\ BelowPause(gap) /\ ~st.paused
        resumeNow == st.started /\ ~pauseNow /\ AtResume(gap) /\ st.paused
        paused1 == IF pauseNow THEN TRUE ELSE IF resumeNow THEN FALSE ELSE st.paused
        canPlay == IF ~st.started THEN startNow ELSE ~paused1
        started1 == st.started \/ startNow
        outFrame == [ch \in Chans |-> OutputSample(canPlay, buf1, ch, st.r)]
        w1 == Advance(st.w)
        r1 == NextReadPos(canPlay, st.r)
        entry == [pos |-> base + i,
                  fill |-> st.wAbs - st.rAbs,
                  gap |-> gap,
                  before |-> GateState(st.started, st.paused),
                  after |-> GateState(started1, paused1),
                  w |-> st.w, r |-> st.r, w2 |-> w1, r2 |-> r1,
                  rFrame |-> st.rAbs,
                  out |-> outFrame]
    IN  [buf |-> buf1, w |-> w1, r |-> r1,
         started |-> started1, paused |-> paused1,
         wAbs |-> st.wAbs + 1,
         rAbs |-> IF r1 # st.r THEN st.rAbs + 1 ELSE st.rAbs,
         cells |-> [st.cells EXCEPT ![st.w] = base + i],
         log |-> Append(st.log, entry)]

RECURSIVE DelayLoop(_, _, _)
DelayLoop(st, base, i) ==
    IF i >= period THEN st ELSE DelayLoop(DelayFrame(st, base, i), base, i + 1)

\* The delay-buffer stage of one callback: load the cursors, run the loop,
\* store the cursors.
DelayStage ==
    LET st0 == [buf |-> delayBuffer, w |-> delayWritePos, r |-> delayReadPos,
                started |-> playbackStarted, paused |-> wasPaused,
                wAbs |-> framesIn, rAbs |-> framesOut,
                cells |-> cellFrame, log |-> <<>>]
        st == DelayLoop(st0, framesIn, 0)
    IN  /\ delayBuffer' = st.buf
        /\ delayWritePos' = st.w
        /\ delayReadPos' = st.r
        /\ playbackStarted' = st.started
        /\ wasPaused' = st.paused
        /\ framesIn' = st.wAbs
        /\ framesOut' = st.rAbs
        /\ cellFrame' = st.cells
        /\ frameLog' = st.log

\* chunkStartPos as process() and processTranscription() both derive it
ChunkStartPos(endPos, len) == (endPos - len + DelayBufferSize) % DelayBufferSize

\* (variant: the handoff made whether or not the last snapshot was taken)
ShouldHandOffAlways(interval, pending) == interval >= ChunkFrames
\* the handoff test: a chunk's worth of frames counted and no snapshot pending
ShouldHandOff(interval, pending) == interval >= ChunkFrames /\ ~pending

\* process() up to the handoff test; without a handoff the callback runs to
\* its end here.
ProcessBeginUpTo(maxFrames) ==
    /\ audioPc = "idle"
    /\ framesIn + period <= maxFrames
    /\ LET acc == Accumulate(audioBuffer, bufferWritePos, captureFirst, framesIn, 0)
           ti == transcriptionInterval + period
       IN  /\ audioBuffer' = acc.buf
           /\ bufferWritePos' = acc.pos
           /\ captureFirst' = acc.first
           /\ transcriptionInterval' = ti
           /\ IF ShouldHandOff(ti, hasNewBuffer)
              THEN /\ audioPc' = "lock"
                   /\ UNCHANGED <<cursorVars, delayBuffer>>
              ELSE /\ audioPc' = "idle"
                   /\ DelayStage
    /\ UNCHANGED <<engineVars, alignVars, extractVars, patch>>
    /\ UNCHANGED <<configVars, handoffVars, patchedFrames, controlVars, syncVars,
                   workerVars, workerPc>>

ProcessBegin == ProcessBeginUpTo(MaxFrames)

\* (variant: a notification that reaches no one)
NotifiedNever(pending, waiting) == pending
\* bufferReady.notify_one(): a thread waiting on the condition is woken
Notified(pending, waiting) == pending \/ waiting

\* process() from lock_guard to its end: the handoff under bufferMutex, the
\* reset of the accumulation, then the delay-buffer stage.
ProcessHandoff ==
    /\ audioPc = "lock"
    /\ bufferMutex = "free"
    /\ LET samplesToProcess == Min(bufferWritePos, ChunkFrames)
           start == ChunkStartPos(delayWritePos, ChunkFrames)
       IN  /\ processingBuffer' =
                 [i \in DOMAIN processingBuffer |->
                     IF i < samplesToProcess THEN audioBuffer[i]
                     ELSE processingBuffer[i]]
           /\ bufferCaptureTime' = delayWritePos
           /\ lastChunk' = [n |-> samplesToProcess,
                            first |-> captureFirst,
                            endPos |-> delayWritePos,
                            endFrame |-> framesIn,
                            interval |-> transcriptionInterval,
                            src |-> [i \in 0 .. (ChunkFrames - 1) |->
                                        cellFrame[(start + i) % DelayBufferSize]]]
    /\ hasNewBuffer' = TRUE
    /\ wakeup' = Notified(wakeup, workerPc = "waiting")
    /\ bufferWritePos' = 0
    /\ transcriptionInterval' = 0
    /\ DelayStage
    /\ audioPc' = "idle"
    /\ UNCHANGED <<engineVars, alignVars, extractVars, patch>>
    /\ UNCHANGED <<configVars, audioBuffer, captureFirst, patchedFrames, controlVars,
                   bufferMutex, workerVars, workerPc>>


\* ------------------------------------------------- whisperThreadFunction()
\* std::unique_lock at the top of the loop body
WorkerLock ==
    /\ workerPc = "top"
    /\ ~shouldStopThread
    /\ bufferMutex = "free"
    /\ bufferMutex' = "worker"
    /\ workerPc' = "pred"
    /\ UNCHANGED <<engineVars, alignVars, extractVars, patch>>
    /\ UNCHANGED <<configVars, captureVars, handoffVars, delayVars, cursorVars,
                   controlVars, wakeup, workerVars, audioPc>>

\* bufferReady.wait(): the predicate is false, the mutex is released
WorkerWait ==
    /\ workerPc = "pred"
    /\ ~(hasNewBuffer \/ shouldStopThread)
    /\ bufferMutex' = "free"
    /\ wakeup' = FALSE
    /\ workerPc' = "waiting"
    /\ UNCHANGED <<engineVars, alignVars, extractVars, patch>>
    /\ UNCHANGED <<configVars, captureVars, handoffVars, delayVars, cursorVars,
                   controlVars, workerVars, audioPc>>

\* a notification ends the wait: the mutex is taken again, the predicate re-read
WorkerWake ==
    /\ workerPc = "waiting"
    /\ wakeup
    /\ bufferMutex = "free"
    /\ bufferMutex' = "worker"
    /\ wakeup' = FALSE
    /\ workerPc' = "pred"
    /\ UNCHANGED <<engineVars, alignVars, extractVars, patch>>
    /\ UNCHANGED <<configVars, captureVars, handoffVars, delayVars, cursorVars,
                   controlVars, workerVars, audioPc>>

\* (variant: the flag left raised after the copy)
FlagAfterTakeKept == TRUE
\* hasNewBuffer.store(false)
FlagAfterTake == FALSE

\* the copy of the chunk under the mutex, up to hasNewBuffer.store(false)
WorkerTake ==
    /\ workerPc = "pred"
    /\ ~shouldStopThread
    /\ hasNewBuffer
    /\ localBuffer' = [i \in DOMAIN localBuffer |->
                          IF i \in DOMAIN processingBuffer THEN processingBuffer[i]
                          ELSE localBuffer[i]]
    /\ captureTime' = bufferCaptureTime
    /\ localFirst' = lastChunk.first
    /\ hasNewBuffer' = FlagAfterTake
    /\ workerPc' = "unlock"
    /\ UNCHANGED <<engineVars, alignVars, extractVars, patch>>
    /\ UNCHANGED <<configVars, captureVars, processingBuffer, bufferCaptureTime,
                   lastChunk, delayVars, cursorVars, controlVars, syncVars,
                   transcribedWords, idx, hits, profanityCount, transcriptsLeft,
                   audioPc>>

\* (variant: the mutex kept through processTranscription())
UnlockedKept(holder) == holder
\* the mutex after lock.unlock()
Unlocked(holder) == "free"

\* lock.unlock()
WorkerUnlock ==
    /\ workerPc = "unlock"
    /\ bufferMutex' = Unlocked(bufferMutex)
    /\ workerPc' = "recog"
    /\ UNCHANGED <<engineVars, alignVars, extractVars, patch>>
    /\ UNCHANGED <<configVars, captureVars, handoffVars, delayVars, cursorVars,
                   controlVars, wakeup, workerVars, audioPc>>

\* ------------------------------------------------------------ text of words
UpperCase == {"B", "H"}
LowerCase == {"a", "b", "c", "d", "h", "k", "l", "o", "w", "y"}
\* ::tolower
ToLower(c) == CASE c = "B" -> "b" [] c = "H" -> "h" [] OTHER -> c
\* std::isalnum
IsAlnum(c) == c \in UpperCase \cup LowerCase
\* std::isspace
IsSpace(c) == c = " "

\* the words a stream extraction (iss >> word) yields
RECURSIVE SplitWords(_, _, _)
SplitWords(done, cur, rest) ==
    IF rest = <<>> THEN (IF cur = <<>> THEN done ELSE Append(done, cur))
    ELSE IF IsSpace(Head(rest))
         THEN SplitWords(IF cur = <<>> THEN done ELSE Append(done, cur), <<>>, Tail(rest))
         ELSE SplitWords(done, Append(cur, Head(rest)), Tail(rest))

RECURSIVE JoinWords(_, _)
JoinWords(ws, i) ==
    IF i > Len(ws) THEN <<>>
    ELSE (IF i > 1 THEN <<" ">> ELSE <<>>) \o ws[i] \o JoinWords(ws, i + 1)

\* LyricsAlignment::normalizeText: lowercase, drop punctuation, squeeze spaces
normalizeText(text) ==
    LET lower == [i \in 1 .. Len(text) |-> ToLower(text[i])]
        kept == SelectSeq(lower, LAMBDA c : IsAlnum(c) \/ IsSpace(c))
    IN  JoinWords(SplitWords(<<>>, <<>>, kept), 1)

\* the loaded lexicon: a word, a two-word form that starts with it, and a
\* two-word form neither of whose words is listed alone
Lexicon == { <<"b", "a", "d">>,
             <<"b", "a", "d", "c", "o", "w">>,
             <<"h", "o", "l", "y", "c", "o", "w">> }

\* ProfanityFilter::containsProfanity: exact membership
containsProfanity(normalized) == normalized \in Lexicon

\* ------------------------------------------------------ censor: hit ranges
\* (int)x for x = a / b, b > 0: truncation toward zero
TruncDiv(a, b) == IF a >= 0 THEN a \div b ELSE -((-a) \div b)

\* (int)(seconds * config.sampleRate), the time given in tenths of a second
ToSample(tenths) == TruncDiv(tenths * SampleRate, 10)

\* (variant: no lower clamp)
StartSampleNoFloor(start) ==
    Min(ToSample(start - PaddingBeforeTenths), TranscribeFrames)
\* startSample after the clamp
StartSample(start) ==
    Max(0, Min(ToSample(start - PaddingBeforeTenths), TranscribeFrames))

\* endSample after the clamp
EndSample(startSample, end) ==
    Max(startSample, Min(ToSample(end + PaddingAfterTenths), TranscribeFrames))

\* ---------------------------------------------------------- censor: patches
\* (variant: saturation at the end of the ring instead of wrap-around)
DelayPosSaturating(chunkStartPos, i) == Min(chunkStartPos + i, DelayBufferSize - 1)
\* delayPos of chunk sample i
DelayPos(chunkStartPos, i) == (chunkStartPos + i) % DelayBufferSize

\* (variant: the range attenuated instead of zeroed)
MuteChannelAttenuate(chan, chunkStartPos, s, e) ==
    [p \in Ring |->
        IF \E i \in s .. (e - 1) : DelayPos(chunkStartPos, i) = p
        THEN RatScale(chan[p], 1, 2) ELSE chan[p]]
\* the Mute loop on one channel
MuteChannel(chan, chunkStartPos, s, e) ==
    [p \in Ring |->
        IF \E i \in s .. (e - 1) : DelayPos(chunkStartPos, i) = p
        THEN Zero ELSE chan[p]]

\* fadeSamples
FadeSamples(n) == Min(MaxFadeSamples, n \div 4)

\* the factor applied to reversed sample i, as <<numerator, denominator>>
ReverseGain(i, n, fade) ==
    IF i < fade THEN <<i, 2 * fade>>
    ELSE IF i >= n - fade THEN <<n - i, 2 * fade>>
    ELSE <<1, 2>>

\* the Reverse loops on one channel
ReverseChannel(chan, chunkStartPos, s, e) ==
    LET n == e - s
        fade == FadeSamples(n)
        temp == [i \in 0 .. (n - 1) |-> chan[DelayPos(chunkStartPos, s + i)]]
        reversed == [i \in 0 .. (n - 1) |-> temp[n - 1 - i]]
        sample(i) == RatScale(reversed[i], ReverseGain(i, n, fade)[1],
                              ReverseGain(i, n, fade)[2])
    IN  [p \in Ring |->
            IF \E i \in 0 .. (n - 1) : DelayPos(chunkStartPos, s + i) = p
            THEN sample(CHOOSE i \in 0 .. (n - 1) : DelayPos(chunkStartPos, s + i) = p)
            ELSE chan[p]]

\* "Apply censorship" in the mode read from config
ApplyCensor(buf, mode, chunkStartPos, s, e) ==
    [ch \in Chans |->
        IF mode = "Mute" THEN MuteChannel(buf[ch], chunkStartPos, s, e)
        ELSE IF mode = "Reverse" THEN ReverseChannel(buf[ch], chunkStartPos, s, e)
        ELSE buf[ch]]


\* --------------------------------------------------- processTranscription()
Word(w, s, e) == [word |-> w, start |-> s, end |-> e]

wBad == <<"B", "a", "d">>
wHoly == <<"h", "o", "l", "y">>
wCow == <<"c", "o", "w", "!">>
wOk == <<"o", "k">>

\* Word lists the recognizer and the timestamp refiner may deliver for a
\* chunk (times in tenths of a second within the chunk).
Transcripts ==
    { <<>>,
      <<Word(wOk, 5, 9), Word(wOk, 9, 12)>>,
      <<Word(wBad, 20, 24)>>,
      <<Word(wHoly, 10, 13), Word(wCow, 13, 16)>> }

\* A wider family for the study of the censor alone: every one-word list over
\* a range of timestamps that reaches outside the chunk, and every two- and
\* three-word list over a few timing patterns.
Vocabulary == {wBad, wHoly, wCow, wOk}
WideTimes == {-10, 0, 4, 9, 20, 24, 46, 50, 60}
PairTimings == { <<10, 13, 13, 16>>, <<0, 3, 3, 10>>, <<40, 46, 46, 50>>,
                 <<20, 10, 10, 5>> }
AllTranscripts ==
    {<<>>}
    \cup { <<Word(w, s, e)>> : w \in {wBad, wOk}, s \in WideTimes, e \in WideTimes }
    \cup { <<Word(w1, t[1], t[2]), Word(w2, t[3], t[4])>> :
              w1 \in Vocabulary, w2 \in Vocabulary, t \in PairTimings }
    \cup { <<Word(w1, 10, 13), Word(w2, 13, 16), Word(w3, 16, 20)>> :
              w1 \in Vocabulary, w2 \in Vocabulary, w3 \in Vocabulary }

\* whisper_full() returns non-zero: processTranscription() returns at once
RecognizeFail ==
    /\ workerPc = "recog"
    /\ workerPc' = "top"
    /\ UNCHANGED <<engineVars, alignVars, extractVars, patch>>
    /\ UNCHANGED <<configVars, captureVars, handoffVars, delayVars, cursorVars,
                   controlVars, syncVars, workerVars, audioPc>>

\* whisper_full() succeeds; the words are extracted and refined
RecognizeFrom(transcripts) ==
    /\ workerPc = "recog"
    /\ \E t \in transcripts :
          /\ t # <<>> => transcriptsLeft > 0
          /\ transcribedWords' = t
          /\ transcriptsLeft' = IF t = <<>> THEN transcriptsLeft ELSE transcriptsLeft - 1
    /\ idx' = 0
    /\ workerPc' = "scan"
    /\ UNCHANGED <<engineVars, alignVars, extractVars, patch>>
    /\ UNCHANGED <<configVars, captureVars, handoffVars, delayVars, cursorVars,
                   controlVars, syncVars, localBuffer, captureTime, localFirst, hits,
                   profanityCount, audioPc>>

Recognize == RecognizeFrom(Transcripts)

\* the ring cells the loops of a patch of [s, e) index
PatchCells(chunkStartPos, s, e) == { DelayPos(chunkStartPos, i) : i \in s .. (e - 1) }

\* the record kept of a hit
HitRecord(kind, wordSet, chunkStartPos, s, e) ==
    [kind |-> kind, words |-> wordSet, chunk |-> localFirst,
     chunkEndPos |-> captureTime, chunkStartPos |-> chunkStartPos,
     s |-> s, e |-> e, mode |-> censorMode,
     cells |-> PatchCells(chunkStartPos, s, e),
     frames |-> { cellFrame[p] : p \in PatchCells(chunkStartPos, s, e) } \ {-1},
     held |-> { cellFrame[p] : p \in PatchCells(chunkStartPos, s, e) },
     late |-> \E p \in PatchCells(chunkStartPos, s, e) :
                 cellFrame[p] # -1 /\ cellFrame[p] < framesOut,
     readerPast |-> framesOut > localFirst + s]

\* (variant: every word taken for a listed one)
SingleHitAlways(w) == TRUE
\* whether the single-word branch is taken for a word
SingleHit(w) == containsProfanity(normalizeText(w.word))

\* whether the multi-word test is made for word i (0-based) of list ws, given
\* that its single-word branch was taken or not
BigramTested(ws, i, single) == i + 1 < Len(ws)

\* (variant: no pair of words ever matched)
BigramHitNever(w, next) == FALSE
\* whether the multi-word branch is taken
BigramHit(w, next) == containsProfanity(normalizeText(w.word \o next.word))

\* One iteration of the scan loop, body and increment.
ScanStep ==
    /\ workerPc = "scan"
    /\ idx < Len(transcribedWords)
    /\ LET wordSeg == transcribedWords[idx + 1]
           chunkEndPos == captureTime
           chunkStartPos == ChunkStartPos(chunkEndPos, TranscribeFrames)
           single == SingleHit(wordSeg)
           skipSingle == single /\ bufferUnderrun
           s1 == StartSample(wordSeg.start)
           e1 == EndSample(s1, wordSeg.end)
           buf1 == IF single /\ ~skipSingle
                   THEN ApplyCensor(delayBuffer, censorMode, chunkStartPos, s1, e1)
                   ELSE delayBuffer
           hits1 == IF single /\ ~skipSingle
                    THEN <<HitRecord("single", {idx}, chunkStartPos, s1, e1)>>
                    ELSE <<>>
           bigram == /\ ~skipSingle
                     /\ BigramTested(transcribedWords, idx, single)
                     /\ BigramHit(wordSeg, transcribedWords[idx + 2])
           skipBigram == bigram /\ bufferUnderrun
           s2 == StartSample(wordSeg.start)
           e2 == IF bigram THEN EndSample(s2, transcribedWords[idx + 2].end) ELSE s2
           buf2 == IF bigram /\ ~skipBigram
                   THEN ApplyCensor(buf1, censorMode, chunkStartPos, s2, e2)
                   ELSE buf1
           hits2 == IF bigram /\ ~skipBigram
                    THEN <<HitRecord("bigram", {idx, idx + 1}, chunkStartPos, s2, e2)>>
                    ELSE <<>>
       IN  /\ delayBuffer' = buf2
           /\ hits' = hits \o hits1 \o hits2
           /\ profanityCount' = profanityCount + Len(hits1) + Len(hits2)
           /\ patchedFrames' = patchedFrames
                                 \cup { f \in 0 .. MaxFrames :
                                          \E k \in 1 .. Len(hits1 \o hits2) :
                                             f \in (hits1 \o hits2)[k].frames }
           /\ idx' = IF bigram /\ ~skipBigram THEN idx + 2 ELSE idx + 1
    /\ UNCHANGED <<engineVars, alignVars, extractVars, patch>>
    /\ UNCHANGED <<configVars, captureVars, handoffVars, cursorVars, controlVars,
                   syncVars, localBuffer, captureTime, transcribedWords, localFirst,
                   transcriptsLeft, audioPc, workerPc>>

\* the scan loop ends; processTranscription() returns to the thread loop
ScanDone ==
    /\ workerPc = "scan"
    /\ idx >= Len(transcribedWords)
    /\ workerPc' = "top"
    /\ transcribedWords' = <<>>
    /\ idx' = 0
    /\ UNCHANGED <<engineVars, alignVars, extractVars, patch>>
    /\ UNCHANGED <<configVars, captureVars, handoffVars, delayVars, cursorVars,
                   controlVars, syncVars, localBuffer, captureTime, localFirst, hits,
                   profanityCount, transcriptsLeft, audioPc>>

\* ------------------------------------------------------------ specification
\* The state after initialize() and start(): buffers allocated and cleared,
\* cursors and counters reset, the Whisper thread launched.
Init ==
    /\ period \in Periods
    /\ censorMode \in CensorModes
    /\ audioBuffer = [i \in 0 .. (ChunkFrames - 1) |-> Zero]
    /\ processingBuffer = [i \in 0 .. (ChunkFrames - 1) |-> Zero]
    /\ localBuffer = [i \in 0 .. (TranscribeFrames - 1) |-> Zero]
    /\ bufferWritePos = 0
    /\ transcriptionInterval = 0
    /\ bufferCaptureTime = 0
    /\ delayBuffer = [ch \in Chans |-> [p \in Ring |-> Zero]]
    /\ delayWritePos = 0
    /\ delayReadPos = 0
    /\ playbackStarted = FALSE
    /\ wasPaused = FALSE
    /\ hasNewBuffer = FALSE
    /\ shouldStopThread = FALSE
    /\ bufferUnderrun = FALSE
    /\ stopPc = "none"
    /\ profanityCount = 0
    /\ bufferMutex = "free"
    /\ wakeup = FALSE
    /\ audioPc = "idle"
    /\ workerPc = "top"
    /\ captureTime = 0
    /\ transcribedWords = <<>>
    /\ idx = 0
    /\ framesIn = 0
    /\ framesOut = 0
    /\ frameLog = <<>>
    /\ cellFrame = [p \in Ring |-> -1]
    /\ patchedFrames = {}
    /\ captureFirst = -1
    /\ lastChunk = [n |-> 0, first |-> -1, endPos |-> 0, endFrame |-> 0,
                    interval |-> 0,
                    src |-> [i \in 0 .. (ChunkFrames - 1) |-> -1]]
    /\ localFirst = -1
    /\ hits = <<>>
    /\ transcriptsLeft = MaxTranscripts
    /\ patch = NoPatch
    /\ captureHandle = "open"
    /\ playbackHandle = "open"
    /\ processor = TRUE
    /\ running = TRUE
    /\ engineLastError = ""
    /\ processorLastError = ""
    /\ initResult = "ok"
    /\ startResult = "ok"
    /\ shouldStop = FALSE
    /\ enginePc = "none"
    /\ processorStartResult = "ok"
    /\ originalSegments = <<>>
    /\ lyricsWords = <<>>
    /\ alignments = <<>>
    /\ correctedSegments = <<>>
    /\ alignPc = "idle"
    /\ segmentStart = 0
    /\ segmentEnd = 0
    /\ segmentWords = 0
    /\ extractedWords = <<>>
    /\ extractPc = "idle"

Next ==
    \/ ProcessBegin
    \/ ProcessHandoff
    \/ WorkerLock
    \/ WorkerWait
    \/ WorkerWake
    \/ WorkerTake
    \/ WorkerUnlock
    \/ RecognizeFail
    \/ Recognize
    \/ ScanStep
    \/ ScanDone

Spec == Init /\ [][Next]_vars

\* The censor studied alone: the same engine fed just past its first chunk,
\* the recognizer free to deliver any list of the wider family.
ProcessBeginCensor == ProcessBeginUpTo(CensorFrames)
RecognizeAny == RecognizeFrom(AllTranscripts)

NextCensor ==
    \/ ProcessBeginCensor
    \/ ProcessHandoff
    \/ WorkerLock
    \/ WorkerWait
    \/ WorkerWake
    \/ WorkerTake
    \/ WorkerUnlock
    \/ RecognizeFail
    \/ RecognizeAny
    \/ ScanStep
    \/ ScanDone

SpecCensor == Init /\ [][NextCensor]_vars

\* A long clean stream: the engine in its default censor mode, fed until both
\* cursors have wrapped around the ring, the recognizer delivering only lists
\* without a listed word.
StreamPeriods == {2, 3}
InitStream == Init /\ period \in StreamPeriods /\ censorMode = "Reverse"
CleanTranscripts == { <<>>, <<Word(wOk, 5, 9), Word(wOk, 9, 12)>> }
ProcessBeginStream == ProcessBeginUpTo(StreamFrames)
RecognizeClean == RecognizeFrom(CleanTranscripts)

NextStream ==
    \/ ProcessBeginStream
    \/ ProcessHandoff
    \/ WorkerLock
    \/ WorkerWait
    \/ WorkerWake
    \/ WorkerTake
    \/ WorkerUnlock
    \/ RecognizeFail
    \/ RecognizeClean
    \/ ScanStep
    \/ ScanDone

SpecStream == InitStream /\ [][NextStream]_vars

\* The pipeline over two chunks with a Whisper thread that the scheduler runs
\* and a recognizer whose calls return.
LiveFrames == 2 * ChunkFrames + LiveExtraFrames
ProcessBeginLive == ProcessBeginUpTo(LiveFrames)

NextLive ==
    \/ ProcessBeginLive
    \/ ProcessHandoff
    \/ WorkerLock
    \/ WorkerWait
    \/ WorkerWake
    \/ WorkerTake
    \/ WorkerUnlock
    \/ RecognizeFail
    \/ RecognizeClean
    \/ ScanStep
    \/ ScanDone

FairWorker ==
    /\ WF_vars(WorkerLock)
    /\ WF_vars(WorkerWait)
    /\ WF_vars(WorkerWake)
    /\ WF_vars(WorkerTake)
    /\ WF_vars(WorkerUnlock)
    /\ WF_vars(RecognizeFail \/ RecognizeClean)
    /\ WF_vars(ScanStep)
    /\ WF_vars(ScanDone)

SpecLive == Init /\ [][NextLive]_vars /\ FairWorker

\* ------------------------------------------------------------------ stop()
\* stop(), called once the audio thread has been joined (AlsaAudioEngine::stop):
\* the early return on the flag, else the flag set, the notification and the
\* join, which returns when the Whisper thread has left its function.
Stop ==
    /\ audioPc = "idle"
    /\ stopPc \in {"none", "joining"}
    /\ IF stopPc = "joining"
       THEN /\ workerPc = "exited"
            /\ stopPc' = "returned"
            /\ UNCHANGED <<shouldStopThread, wakeup>>
       ELSE IF ~shouldStopThread
            THEN /\ stopPc' = "returned"
                 /\ UNCHANGED <<shouldStopThread, wakeup>>
            ELSE /\ shouldStopThread' = TRUE
                 /\ wakeup' = Notified(wakeup, workerPc = "waiting")
                 /\ stopPc' = "joining"
    /\ UNCHANGED <<engineVars, alignVars, extractVars, patch>>
    /\ UNCHANGED <<configVars, captureVars, handoffVars, delayVars, cursorVars,
                   bufferUnderrun, bufferMutex, workerVars, audioPc, workerPc>>

\* the Whisper thread leaves its function
WorkerExit ==
    /\ workerPc' = "exited"
    /\ bufferMutex' = IF bufferMutex = "worker" THEN "free" ELSE bufferMutex
    /\ UNCHANGED <<engineVars, alignVars, extractVars, patch>>
    /\ UNCHANGED <<configVars, captureVars, handoffVars, delayVars, cursorVars,
                   controlVars, wakeup, workerVars, audioPc>>

\* while (!shouldStopThread.load()): leave, or lock the mutex
WorkerLoopTest ==
    /\ workerPc = "top"
    /\ IF shouldStopThread THEN WorkerExit ELSE WorkerLock

\* after the wait: break on the stop flag, else take the chunk
WorkerAfterWait ==
    /\ workerPc = "pred"
    /\ IF shouldStopThread THEN WorkerExit ELSE WorkerTake

\* callbacks come only while the audio thread runs, that is before stop()
ProcessBeginStop ==
    /\ stopPc = "none"
    /\ ProcessBeginUpTo(CensorFrames)

NextStop ==
    \/ ProcessBeginStop
    \/ ProcessHandoff
    \/ WorkerLoopTest
    \/ WorkerWait
    \/ WorkerWake
    \/ WorkerAfterWait
    \/ WorkerUnlock
    \/ RecognizeFail
    \/ RecognizeClean
    \/ ScanStep
    \/ ScanDone
    \/ Stop

\* The worker and the caller of stop() are threads the scheduler runs.
FairStop ==
    /\ WF_vars(WorkerLoopTest)
    /\ WF_vars(WorkerWait)
    /\ WF_vars(WorkerWake)
    /\ WF_vars(WorkerAfterWait)
    /\ WF_vars(WorkerUnlock)
    /\ WF_vars(RecognizeFail \/ RecognizeClean)
    /\ WF_vars(ScanStep)
    /\ WF_vars(ScanDone)
    /\ WF_vars(Stop)

SpecStop == Init /\ [][NextStop]_vars /\ FairStop


\* ---------------------------------------------------------- AlsaAudioEngine
\* How initialize() can go: the step that fails, or none.
InitOutcomes == {"captureOpen", "captureSetup", "playbackOpen", "playbackSetup",
                 "lexicon", "model", "ok"}

\* (variant: a close that leaves the handle set)
ClosedHandleKept(h) == h
\* closeAlsaDevices() on one handle
ClosedHandle(h) == "null"

\* The state after the constructors: no device open, no processor, no thread.
Constructed ==
    /\ period \in Periods
    /\ censorMode \in CensorModes
    /\ captureHandle = "null"
    /\ playbackHandle = "null"
    /\ processor = FALSE
    /\ running = FALSE
    /\ engineLastError = ""
    /\ processorLastError = ""
    /\ initResult = "none"
    /\ startResult = "none"
    /\ shouldStop = FALSE
    /\ enginePc = "none"
    /\ processorStartResult = "none"
    /\ audioBuffer = <<>>
    /\ processingBuffer = <<>>
    /\ localBuffer = <<>>
    /\ delayBuffer = <<>>
    /\ bufferWritePos = 0
    /\ transcriptionInterval = 0
    /\ bufferCaptureTime = 0
    /\ delayWritePos = 0
    /\ delayReadPos = 0
    /\ playbackStarted = FALSE
    /\ wasPaused = FALSE
    /\ hasNewBuffer = FALSE
    /\ shouldStopThread = FALSE
    /\ bufferUnderrun = FALSE
    /\ stopPc = "none"
    /\ profanityCount = 0
    /\ bufferMutex = "free"
    /\ wakeup = FALSE
    /\ audioPc = "off"
    /\ workerPc = "off"
    /\ captureTime = 0
    /\ transcribedWords = <<>>
    /\ idx = 0
    /\ patch = NoPatch
    /\ framesIn = 0
    /\ framesOut = 0
    /\ frameLog = <<>>
    /\ cellFrame = [p \in Ring |-> -1]
    /\ patchedFrames = {}
    /\ captureFirst = -1
    /\ lastChunk = [n |-> 0, first |-> -1, endPos |-> 0, endFrame |-> 0,
                    interval |-> 0,
                    src |-> [i \in 0 .. (ChunkFrames - 1) |-> -1]]
    /\ localFirst = -1
    /\ hits = <<>>
    /\ transcriptsLeft = MaxTranscripts

InitEngine ==
    /\ Constructed
    /\ originalSegments = <<>>
    /\ lyricsWords = <<>>
    /\ alignments = <<>>
    /\ correctedSegments = <<>>
    /\ alignPc = "idle"
    /\ segmentStart = 0
    /\ segmentEnd = 0
    /\ segmentWords = 0
    /\ extractedWords = <<>>
    /\ extractPc = "idle"

\* AlsaAudioEngine::initialize, with AudioProcessor::initialize: the devices
\* are opened in turn, the processor made and initialized; a failure sets
\* lastError and returns false, after closeAlsaDevices() when it comes later
\* than the capture device.
EngineInitialize ==
    /\ initResult = "none"
    /\ \E outcome \in InitOutcomes :
          LET captureOpened == outcome # "captureOpen"
              captureFailed == outcome \in {"captureOpen", "captureSetup"}
              playbackOpened == ~captureFailed /\ outcome # "playbackOpen"
              playbackFailed == outcome \in {"playbackOpen", "playbackSetup"}
              processorMade == ~captureFailed /\ ~playbackFailed
              processorFailed == outcome \in {"lexicon", "model"}
              closed == playbackFailed \/ processorFailed
              capture1 == IF captureOpened THEN "open" ELSE captureHandle
              playback1 == IF playbackOpened THEN "open" ELSE playbackHandle
          IN  /\ captureHandle' = IF closed /\ capture1 # "null"
                                  THEN ClosedHandle(capture1) ELSE capture1
              /\ playbackHandle' = IF closed /\ playback1 # "null"
                                   THEN ClosedHandle(playback1) ELSE playback1
              /\ processor' = (processor \/ processorMade)
              /\ processorLastError' = IF processorFailed THEN outcome
                                       ELSE processorLastError
              /\ engineLastError' = IF captureFailed THEN "capture"
                                    ELSE IF playbackFailed THEN "playback"
                                    ELSE IF processorFailed THEN "processor"
                                    ELSE engineLastError
              /\ initResult' = IF outcome = "ok" THEN "ok" ELSE "failed"
              /\ IF outcome = "ok"
                 THEN /\ audioBuffer' = [i \in 0 .. (ChunkFrames - 1) |-> Zero]
                      /\ processingBuffer' = [i \in 0 .. (ChunkFrames - 1) |-> Zero]
                      /\ delayBuffer' = [ch \in Chans |-> [p \in Ring |-> Zero]]
                 ELSE UNCHANGED <<audioBuffer, processingBuffer, delayBuffer>>
    /\ UNCHANGED <<configVars, alignVars, extractVars, patch, running, startResult,
                   shouldStop, enginePc, processorStartResult,
                   bufferWritePos, transcriptionInterval, captureFirst,
                   bufferCaptureTime, hasNewBuffer, lastChunk, patchedFrames,
                   cursorVars, controlVars, syncVars, workerVars, audioPc, workerPc>>

\* the test that opens AudioProcessor::start(): the stop flag
AlreadyRunning(stopFlag, thread) == stopFlag

\* whisperThread.joinable(): a thread was launched and has not been joined
WhisperJoinable(thread) == thread # "off"

\* AlsaAudioEngine::start, with AudioProcessor::start: refused when running or
\* when a handle or the processor is missing; else the processor is reset, the
\* Whisper thread and the audio thread are launched.  The assignment to
\* whisperThread calls std::terminate() when the member holds a joinable
\* thread: the process is gone, with all its threads.
EngineStart ==
    /\ enginePc = "none"
    /\ IF running \/ captureHandle = "null" \/ playbackHandle = "null" \/ ~processor
       THEN /\ engineLastError' = IF running THEN "alreadyRunning" ELSE "notInitialized"
            /\ startResult' = "refused"
            /\ UNCHANGED <<captureHandle, playbackHandle, processor, running,
                           processorLastError, initResult, shouldStop, enginePc,
                           processorStartResult, captureVars, handoffVars, delayVars,
                           cursorVars, controlVars, syncVars, workerVars, audioPc,
                           workerPc>>
       ELSE /\ shouldStop' = FALSE
            /\ running' = TRUE
            /\ IF AlreadyRunning(shouldStopThread, workerPc)
               THEN /\ processorLastError' = "alreadyRunning"
                    /\ processorStartResult' = "refused"
                    /\ startResult' = "ok"
                    /\ audioPc' = "idle"
                    /\ UNCHANGED <<bufferWritePos, transcriptionInterval,
                                   playbackStarted, profanityCount, bufferUnderrun,
                                   delayWritePos, delayReadPos, delayBuffer,
                                   shouldStopThread, hasNewBuffer, workerPc,
                                   localBuffer, enginePc, bufferMutex, wakeup>>
               ELSE /\ bufferWritePos' = 0
                    /\ transcriptionInterval' = 0
                    /\ playbackStarted' = FALSE
                    /\ profanityCount' = 0
                    /\ bufferUnderrun' = FALSE
                    /\ delayWritePos' = 0
                    /\ delayReadPos' = 0
                    /\ delayBuffer' = [ch \in DOMAIN delayBuffer |->
                                          [p \in DOMAIN delayBuffer[ch] |-> Zero]]
                    /\ shouldStopThread' = FALSE
                    /\ hasNewBuffer' = FALSE
                    /\ UNCHANGED processorLastError
                    /\ IF WhisperJoinable(workerPc)
                       THEN /\ enginePc' = "aborted"
                            /\ workerPc' = "off"
                            /\ audioPc' = "off"
                            /\ bufferMutex' = "free"
                            /\ wakeup' = FALSE
                            /\ UNCHANGED <<startResult, processorStartResult,
                                           localBuffer>>
                       ELSE /\ workerPc' = "top"
                            /\ localBuffer' = [i \in 0 .. (TranscribeFrames - 1) |-> Zero]
                            /\ processorStartResult' = "ok"
                            /\ startResult' = "ok"
                            /\ audioPc' = "idle"
                            /\ UNCHANGED <<enginePc, bufferMutex, wakeup>>
            /\ UNCHANGED <<captureHandle, playbackHandle, processor, engineLastError,
                           initResult, audioBuffer, captureFirst, processingBuffer,
                           bufferCaptureTime, lastChunk, patchedFrames, wasPaused,
                           framesIn, framesOut, frameLog, cellFrame, stopPc,
                           captureTime, transcribedWords, idx, localFirst, hits,
                           transcriptsLeft>>
    /\ UNCHANGED <<configVars, alignVars, extractVars, patch>>

\* The engine from its construction: initialize(), start(), then the two
\* threads at work on a short clean stream.
NextEngine ==
    \/ EngineInitialize
    \/ EngineStart
    \/ ProcessBeginCensor
    \/ ProcessHandoff
    \/ WorkerLock
    \/ WorkerWait
    \/ WorkerWake
    \/ WorkerTake
    \/ WorkerUnlock
    \/ RecognizeFail
    \/ RecognizeClean
    \/ ScanStep
    \/ ScanDone

SpecEngine == InitEngine /\ [][NextEngine]_vars


\* ------------------------------------------------ the engine's life cycle
\* start(), stop() and the destructor are calls of one control thread; the
\* audio thread tests shouldStop at the top of its loop, and a callback it
\* has begun runs to its end before the thread leaves.

\* (variant: a join that does not wait for the thread)
JoinReturnsAtOnce(thread) == TRUE
\* audioThread->join() returns when the thread has left audioThreadFunc
JoinReturns(thread) == thread = "exited"

\* AudioProcessor::stop() as AlsaAudioEngine calls it: the early return on the
\* flag, else the flag raised and the notification
ProcessorStop ==
    /\ stopPc' = IF ~shouldStopThread THEN "returned" ELSE "joining"
    /\ shouldStopThread' = shouldStopThread
    /\ wakeup' = IF ~shouldStopThread THEN wakeup
                 ELSE Notified(wakeup, workerPc = "waiting")

\* the members go: the handles closed, the processor destroyed; a joinable
\* whisperThread calls std::terminate() from its destructor
Teardown ==
    /\ captureHandle' = IF captureHandle = "null" THEN captureHandle
                        ELSE ClosedHandle(captureHandle)
    /\ playbackHandle' = IF playbackHandle = "null" THEN playbackHandle
                         ELSE ClosedHandle(playbackHandle)
    /\ processor' = FALSE
    /\ IF processor /\ WhisperJoinable(workerPc)
       THEN /\ enginePc' = "aborted"
            /\ workerPc' = "off"
            /\ bufferMutex' = "free"
       ELSE /\ enginePc' = "destroyed"
            /\ UNCHANGED <<workerPc, bufferMutex>>

\* AlsaAudioEngine::stop up to the join: nothing when not running, else the
\* flag raised
EngineStop ==
    /\ enginePc = "none"
    /\ IF ~running
       THEN UNCHANGED <<shouldStop, enginePc>>
       ELSE /\ shouldStop' = TRUE
            /\ enginePc' = "join"
    /\ UNCHANGED <<captureHandle, playbackHandle, processor, running, engineLastError,
                   processorLastError, initResult, startResult, processorStartResult>>
    /\ UNCHANGED <<configVars, alignVars, extractVars, patch, captureVars,
                   handoffVars, delayVars, cursorVars, controlVars, syncVars,
                   workerVars, audioPc, workerPc>>

\* while (!shouldStop.load()) fails: the audio thread leaves its function
AudioLoopExit ==
    /\ audioPc = "idle"
    /\ shouldStop
    /\ audioPc' = "exited"
    /\ UNCHANGED <<configVars, engineVars, alignVars, extractVars, patch, captureVars,
                   handoffVars, delayVars, cursorVars, controlVars, syncVars,
                   workerVars, workerPc>>

\* AlsaAudioEngine::stop from the join on: processor->stop(), running cleared
EngineStopJoined ==
    /\ enginePc = "join"
    /\ JoinReturns(audioPc)
    /\ audioPc' = "joined"
    /\ ProcessorStop
    /\ running' = FALSE
    /\ enginePc' = "none"
    /\ UNCHANGED <<captureHandle, playbackHandle, processor, engineLastError,
                   processorLastError, initResult, startResult, shouldStop,
                   processorStartResult>>
    /\ UNCHANGED <<configVars, alignVars, extractVars, patch, captureVars,
                   handoffVars, delayVars, cursorVars, bufferUnderrun, bufferMutex,
                   workerVars, workerPc>>

\* ~AlsaAudioEngine: stop(), closeAlsaDevices(), then the members; the part
\* up to the join when the engine is running, else the whole of it
EngineDestroy ==
    /\ enginePc = "none"
    /\ IF running
       THEN /\ shouldStop' = TRUE
            /\ enginePc' = "dtorJoin"
            /\ UNCHANGED <<captureHandle, playbackHandle, processor, workerPc,
                           bufferMutex, audioPc>>
       ELSE /\ Teardown
            /\ audioPc' = IF enginePc' = "aborted" THEN "off" ELSE audioPc
            /\ UNCHANGED shouldStop
    /\ UNCHANGED <<running, engineLastError, processorLastError, initResult,
                   startResult, processorStartResult>>
    /\ UNCHANGED <<configVars, alignVars, extractVars, patch, captureVars,
                   handoffVars, delayVars, cursorVars, controlVars, wakeup,
                   workerVars>>

\* ~AlsaAudioEngine from the join on
EngineDestroyJoined ==
    /\ enginePc = "dtorJoin"
    /\ JoinReturns(audioPc)
    /\ ProcessorStop
    /\ running' = FALSE
    /\ Teardown
    /\ audioPc' = IF enginePc' = "aborted" THEN "off" ELSE "joined"
    /\ UNCHANGED <<engineLastError, processorLastError, initResult, startResult,
                   shouldStop, processorStartResult>>
    /\ UNCHANGED <<configVars, alignVars, extractVars, patch, captureVars,
                   handoffVars, delayVars, cursorVars, bufferUnderrun, workerVars>>

\* a callback: the loop test passed, a period read and handed to process()
LifeFrames == ChunkFrames + LifeExtraFrames
ProcessBeginLife ==
    /\ ~shouldStop
    /\ ProcessBeginUpTo(LifeFrames)

NextLife ==
    \/ EngineInitialize
    \/ EngineStart
    \/ EngineStop
    \/ EngineStopJoined
    \/ EngineDestroy
    \/ EngineDestroyJoined
    \/ AudioLoopExit
    \/ ProcessBeginLife
    \/ ProcessHandoff
    \/ WorkerLock
    \/ WorkerWait
    \/ WorkerWake
    \/ WorkerTake
    \/ WorkerUnlock
    \/ RecognizeFail
    \/ RecognizeClean
    \/ ScanStep
    \/ ScanDone

SpecLife == InitEngine /\ [][NextLife]_vars


\* ------------------------------------------- the censor loops, cell by cell
\* processTranscription() writes the delay line while process() reads it, with
\* no lock between them: here each store of the Mute and Reverse loops is a
\* step of its own, in the order of the code (channel by channel, each channel
\* from startSample up).

\* tempBuffer of the Reverse loop for one channel (empty in Mute mode)
TempBuffer(buf, mode, ch, c, s, e) ==
    IF mode = "Reverse"
    THEN [k \in 0 .. (e - s - 1) |-> buf[ch][DelayPos(c, s + k)]]
    ELSE <<>>

\* a censor loop about to run on chunk samples [s, e)
PatchBegin(stage, c, s, e) ==
    [stage |-> stage, c |-> c, s |-> s, e |-> e, ch |-> 0, i |-> s,
     temp |-> TempBuffer(delayBuffer, censorMode, 0, c, s, e),
     written |-> {},
     frames |-> { cellFrame[p] : p \in PatchCells(c, s, e) } \ {-1},
     startOut |-> framesOut]

\* the value the loop stores for chunk sample i
PatchValue(pt, mode) ==
    IF mode = "Mute" THEN Zero
    ELSE LET n == pt.e - pt.s
             k == pt.i - pt.s
             gain == ReverseGain(k, n, FadeSamples(n))
         IN  RatScale(pt.temp[n - 1 - k], gain[1], gain[2])

\* the single-word test of one scan iteration, up to the choice of the loop
ScanSingleTestTo(loops) ==
    /\ workerPc = "scan"
    /\ idx < Len(transcribedWords)
    /\ LET wordSeg == transcribedWords[idx + 1]
           chunkStartPos == ChunkStartPos(captureTime, TranscribeFrames)
           s1 == StartSample(wordSeg.start)
           e1 == EndSample(s1, wordSeg.end)
       IN  IF ~SingleHit(wordSeg)
           THEN /\ workerPc' = "bigram"
                /\ UNCHANGED <<idx, hits, profanityCount, patchedFrames, patch>>
           ELSE IF bufferUnderrun
           THEN /\ idx' = idx + 1
                /\ UNCHANGED <<workerPc, hits, profanityCount, patchedFrames, patch>>
           ELSE /\ profanityCount' = profanityCount + 1
                /\ hits' = Append(hits, HitRecord("single", {idx}, chunkStartPos, s1, e1))
                /\ patchedFrames' = patchedFrames
                                      \cup HitRecord("single", {idx}, chunkStartPos,
                                                     s1, e1).frames
                /\ patch' = PatchBegin("single", chunkStartPos, s1, e1)
                /\ workerPc' = loops
                /\ UNCHANGED idx
    /\ UNCHANGED <<engineVars, alignVars, extractVars, configVars, captureVars, handoffVars,
                   delayBuffer, cursorVars, controlVars, syncVars, localBuffer,
                   captureTime, transcribedWords, localFirst, transcriptsLeft,
                   audioPc>>

ScanSingleTest == ScanSingleTestTo("patch")

\* one store of a censor loop, or the passage to the next channel, or the end
\* of the loops
PatchWrite ==
    /\ workerPc = "patch"
    /\ IF patch.i < patch.e /\ censorMode \in {"Mute", "Reverse"}
       THEN LET p == DelayPos(patch.c, patch.i)
            IN  /\ delayBuffer' = [delayBuffer EXCEPT
                                      ![patch.ch][p] = PatchValue(patch, censorMode)]
                /\ patch' = [patch EXCEPT !.i = patch.i + 1,
                                          !.written = patch.written \cup {<<patch.ch, p>>}]
                /\ UNCHANGED <<workerPc, idx>>
       ELSE IF patch.ch + 1 < Channels /\ censorMode \in {"Mute", "Reverse"}
       THEN /\ patch' = [patch EXCEPT
                            !.ch = patch.ch + 1,
                            !.i = patch.s,
                            !.temp = TempBuffer(delayBuffer, censorMode, patch.ch + 1,
                                                patch.c, patch.s, patch.e)]
            /\ UNCHANGED <<delayBuffer, workerPc, idx>>
       ELSE /\ patch' = NoPatch
            /\ workerPc' = IF patch.stage = "single" THEN "bigram" ELSE "scan"
            /\ idx' = IF patch.stage = "single" THEN idx ELSE idx + 2
            /\ UNCHANGED delayBuffer
    /\ UNCHANGED <<engineVars, alignVars, extractVars, configVars, captureVars, handoffVars,
                   patchedFrames, cursorVars, controlVars, syncVars, localBuffer,
                   captureTime, transcribedWords, localFirst, hits, profanityCount,
                   transcriptsLeft, audioPc>>

\* the multi-word test of one scan iteration, and the loop increment
ScanBigramTestTo(loops) ==
    /\ workerPc = "bigram"
    /\ LET wordSeg == transcribedWords[idx + 1]
           chunkStartPos == ChunkStartPos(captureTime, TranscribeFrames)
           bigram == /\ idx + 1 < Len(transcribedWords)
                     /\ BigramHit(wordSeg, transcribedWords[idx + 2])
           s2 == StartSample(wordSeg.start)
           e2 == IF bigram THEN EndSample(s2, transcribedWords[idx + 2].end) ELSE s2
       IN  IF ~bigram \/ bufferUnderrun
           THEN /\ idx' = idx + 1
                /\ workerPc' = "scan"
                /\ UNCHANGED <<hits, profanityCount, patchedFrames, patch>>
           ELSE /\ profanityCount' = profanityCount + 1
                /\ hits' = Append(hits, HitRecord("bigram", {idx, idx + 1},
                                                  chunkStartPos, s2, e2))
                /\ patchedFrames' = patchedFrames
                                      \cup HitRecord("bigram", {idx, idx + 1},
                                                     chunkStartPos, s2, e2).frames
                /\ patch' = PatchBegin("bigram", chunkStartPos, s2, e2)
                /\ workerPc' = loops
                /\ UNCHANGED idx
    /\ UNCHANGED <<engineVars, alignVars, extractVars, configVars, captureVars, handoffVars,
                   delayBuffer, cursorVars, controlVars, syncVars, localBuffer,
                   captureTime, transcribedWords, localFirst, transcriptsLeft,
                   audioPc>>

ScanBigramTest == ScanBigramTestTo("patch")

\* The engine fed until the reader has entered the first chunk, the recognizer
\* delivering a listed word or a listed pair that covers the chunk.
RaceFrames == DelayFrames + RaceExtraFrames
RaceTranscripts ==
    { <<Word(wBad, 4, 50)>>,
      <<Word(wHoly, 4, 13), Word(wCow, 13, 50)>> }
ProcessBeginRace == ProcessBeginUpTo(RaceFrames)
RecognizeRace == RecognizeFrom(RaceTranscripts)

NextRace ==
    \/ ProcessBeginRace
    \/ ProcessHandoff
    \/ WorkerLock
    \/ WorkerWait
    \/ WorkerWake
    \/ WorkerTake
    \/ WorkerUnlock
    \/ RecognizeFail
    \/ RecognizeRace
    \/ ScanSingleTest
    \/ PatchWrite
    \/ ScanBigramTest
    \/ ScanDone

SpecRace == Init /\ [][NextRace]_vars


\* ------------------------------------------ the censor and setCensorMode()
\* config.censorMode is a plain member that the control thread writes while
\* the Whisper thread reads it, once in "if (... == Mute)" and once more in
\* "else if (... == Reverse)"; here each read is a step, and each loop runs
\* at once.

\* AudioProcessor::setCensorMode, called through AlsaAudioEngine::setCensorMode
SetCensorMode ==
    /\ processor
    /\ \E mode \in CensorModes : censorMode' = mode
    /\ UNCHANGED period
    /\ UNCHANGED <<engineVars, alignVars, extractVars, patch, captureVars, handoffVars,
                   delayVars, cursorVars, controlVars, syncVars, workerVars, audioPc,
                   workerPc>>

\* the end of a hit's block: on to the multi-word test, or to the next word
AfterLoops ==
    /\ patch' = NoPatch
    /\ workerPc' = IF patch.stage = "single" THEN "bigram" ELSE "scan"
    /\ idx' = IF patch.stage = "single" THEN idx ELSE idx + 2

\* if (config.censorMode == CensorMode::Mute): the Mute loops, or on to the
\* second test
ModeTestMute ==
    /\ workerPc = "mode1"
    /\ IF censorMode = "Mute"
       THEN /\ delayBuffer' = ApplyCensor(delayBuffer, "Mute", patch.c, patch.s, patch.e)
            /\ AfterLoops
       ELSE /\ workerPc' = "mode2"
            /\ UNCHANGED <<delayBuffer, patch, idx>>
    /\ UNCHANGED <<engineVars, alignVars, extractVars, configVars, captureVars,
                   handoffVars, patchedFrames, cursorVars, controlVars, syncVars,
                   localBuffer, captureTime, transcribedWords, localFirst, hits,
                   profanityCount, transcriptsLeft, audioPc>>

\* else if (config.censorMode == CensorMode::Reverse): the Reverse loops, or
\* nothing
ModeTestReverse ==
    /\ workerPc = "mode2"
    /\ delayBuffer' = IF censorMode = "Reverse"
                      THEN ApplyCensor(delayBuffer, "Reverse", patch.c, patch.s, patch.e)
                      ELSE delayBuffer
    /\ AfterLoops
    /\ UNCHANGED <<engineVars, alignVars, extractVars, configVars, captureVars,
                   handoffVars, patchedFrames, cursorVars, controlVars, syncVars,
                   localBuffer, captureTime, transcribedWords, localFirst, hits,
                   profanityCount, transcriptsLeft, audioPc>>

ScanSingleMode == ScanSingleTestTo("mode1")
ScanBigramMode == ScanBigramTestTo("mode1")

NextMode ==
    \/ SetCensorMode
    \/ ProcessBeginCensor
    \/ ProcessHandoff
    \/ WorkerLock
    \/ WorkerWait
    \/ WorkerWake
    \/ WorkerTake
    \/ WorkerUnlock
    \/ RecognizeFail
    \/ RecognizeRace
    \/ ScanSingleMode
    \/ ModeTestMute
    \/ ModeTestReverse
    \/ ScanBigramMode
    \/ ScanDone

SpecMode == Init /\ [][NextMode]_vars


\* ---------------------------------------------------------- LyricsAlignment
\* WordSegment: times in tenths of a second, confidence in ten-thousandths
Segment(w, s, e, c) == [word |-> w, start |-> s, end |-> e, confidence |-> c]

\* (variant: no replacement among the edits)
MinEditNoReplace(delete, insert, replace) == 1 + Min(delete, insert)
\* 1 + std::min({delete, insert, replace})
MinEdit(delete, insert, replace) == 1 + Min(delete, Min(insert, replace))

\* calculateEditDistance: the entry matrix[i][j]
RECURSIVE EditDistance(_, _, _, _)
EditDistance(seq1, seq2, i, j) ==
    IF j = 0 THEN i
    ELSE IF i = 0 THEN j
    ELSE IF seq1[i] = seq2[j] THEN EditDistance(seq1, seq2, i - 1, j - 1)
    ELSE MinEdit(EditDistance(seq1, seq2, i - 1, j),
                 EditDistance(seq1, seq2, i, j - 1),
                 EditDistance(seq1, seq2, i - 1, j - 1))

\* calculateEditDistance
calculateEditDistance(seq1, seq2) ==
    [i \in 0 .. Len(seq1) |-> [j \in 0 .. Len(seq2) |-> EditDistance(seq1, seq2, i, j)]]

\* the backtracking loop of backtrackAlignment from (i, j), the pairs pushed
\* so far in acc; <<-2, -2>> stands for an iteration that changes nothing
RECURSIVE Backtrack(_, _, _, _, _, _)
Backtrack(matrix, transcribed, lyrics, i, j, acc) ==
    IF ~(i > 0 \/ j > 0) THEN acc
    ELSE IF i > 0 /\ j > 0 /\ transcribed[i] = lyrics[j]
    THEN Backtrack(matrix, transcribed, lyrics, i - 1, j - 1,
                   Append(acc, <<i - 1, j - 1>>))
    ELSE IF i > 0 /\ j > 0 /\ matrix[i][j] = matrix[i - 1][j - 1] + 1
    THEN Backtrack(matrix, transcribed, lyrics, i - 1, j - 1,
                   Append(acc, <<i - 1, j - 1>>))
    ELSE IF j > 0 /\ matrix[i][j] = matrix[i][j - 1] + 1
    THEN Backtrack(matrix, transcribed, lyrics, i, j - 1, Append(acc, <<-1, j - 1>>))
    ELSE IF i > 0
    THEN Backtrack(matrix, transcribed, lyrics, i - 1, j, acc)
    ELSE Append(acc, <<-2, -2>>)

\* std::reverse
Reverse(seq) == [k \in 1 .. Len(seq) |-> seq[Len(seq) + 1 - k]]

\* (variant: an estimated word given no duration)
EstimatedEndNoDuration(estimatedStart) == estimatedStart
\* estimatedEnd
EstimatedEnd(estimatedStart) == estimatedStart + EstimatedWordTenths

\* original.confidence * 0.95
CorrectedConfidence(c) == (c * 95) \div 100

\* the loop that creates the corrected segments, from pair k on
RECURSIVE CorrectedFrom(_, _, _, _, _)
CorrectedFrom(pairs, lyrics, original, k, acc) ==
    IF k > Len(pairs) THEN acc
    ELSE LET trans_idx == pairs[k][1]
             lyrics_idx == pairs[k][2]
             estimatedStart == IF acc # <<>> THEN acc[Len(acc)].end ELSE 0
         IN  IF trans_idx >= 0 /\ lyrics_idx >= 0
             THEN CorrectedFrom(pairs, lyrics, original, k + 1,
                      Append(acc, Segment(lyrics[lyrics_idx + 1],
                                          original[trans_idx + 1].start,
                                          original[trans_idx + 1].end,
                                          CorrectedConfidence(
                                              original[trans_idx + 1].confidence))))
             ELSE IF lyrics_idx >= 0
             THEN CorrectedFrom(pairs, lyrics, original, k + 1,
                      Append(acc, Segment(lyrics[lyrics_idx + 1], estimatedStart,
                                          EstimatedEnd(estimatedStart), 5000)))
             ELSE CorrectedFrom(pairs, lyrics, original, k + 1, acc)

\* the normalized text of the transcribed words
TranscribedText(segments) ==
    [k \in 1 .. Len(segments) |-> normalizeText(segments[k].word)]

\* Word lists for the aligner: transcribed segments timed by their place, and
\* lyrics already split into normalized words.
SegmentLists ==
    UNION { { [k \in 1 .. n |-> Segment(ws[k], 10 * k - 8, 10 * k - 1, 9000)] :
                ws \in [1 .. n -> {wBad, wCow, wOk}] } :
            n \in 0 .. MaxTranscribedWords }
LyricsLists ==
    UNION { [1 .. n -> {normalizeText(wBad), normalizeText(wCow),
                        normalizeText(wHoly)}] :
            n \in 0 .. MaxLyricsWords }

\* alignLyricsToTranscription: the transcription returned as it is when
\* either list is empty, else the matrix, the backtracking and the corrected
\* segments.
AlignLyrics ==
    /\ alignPc = "ready"
    /\ IF originalSegments = <<>> \/ lyricsWords = <<>>
       THEN /\ correctedSegments' = originalSegments
            /\ alignments' = alignments
            /\ alignPc' = "returned"
       ELSE LET transcribed == TranscribedText(originalSegments)
                matrix == calculateEditDistance(transcribed, lyricsWords)
                pairs == Reverse(Backtrack(matrix, transcribed, lyricsWords,
                                           Len(transcribed), Len(lyricsWords), <<>>))
            IN  /\ alignments' = pairs
                /\ correctedSegments' =
                      CorrectedFrom(pairs, lyricsWords, originalSegments, 1, <<>>)
                /\ alignPc' = "done"
    /\ UNCHANGED <<engineVars, extractVars, patch, configVars, captureVars, handoffVars, delayVars,
                   cursorVars, controlVars, syncVars, workerVars, audioPc, workerPc,
                   originalSegments, lyricsWords>>

InitAlign ==
    /\ Constructed
    /\ originalSegments \in SegmentLists
    /\ lyricsWords \in LyricsLists
    /\ alignments = <<>>
    /\ correctedSegments = <<>>
    /\ alignPc = "ready"
    /\ segmentStart = 0
    /\ segmentEnd = 0
    /\ segmentWords = 0
    /\ extractedWords = <<>>
    /\ extractPc = "idle"

NextAlign == AlignLyrics

SpecAlign == InitAlign /\ [][NextAlign]_vars


\* ------------------------------------- processTranscription(): word timings
\* The words of a recognizer segment are given times spread over the
\* segment's interval.  Times are exact rationals, in seconds.
RatLeq(x, y) == x[1] * y[2] <= y[1] * x[2]
RatMin(x, y) == IF RatLeq(x, y) THEN x ELSE y
RatMax(x, y) == IF RatLeq(x, y) THEN y ELSE x
RatSub(x, y) == RatAdd(x, Rat(-y[1], y[2]))

\* segmentStart * 0.01
Seconds(centis) == Rat(centis, 100)
\* wordDuration = segmentDuration / segmentWords.size()
WordDuration(t0, t1, n) == Rat(t1 - t0, 100 * n)

\* wordEnd = std::max(wordStart + 0.05, std::min(5.0, wordEnd))
ClampedEnd(wordStart, wordEnd) ==
    RatMax(RatAdd(wordStart, Seconds(MinWordHundredths)),
           RatMin(Rat(TranscribeSeconds, 1), wordEnd))

\* wordStart = std::max(0.0, std::min(5.0, wordStart))
ClampedStart(wordStart) == RatMax(Zero, RatMin(Rat(TranscribeSeconds, 1), wordStart))

\* the start and end given to word k (from 0) of n words of segment [t0, t1]
WordTiming(t0, t1, n, k) ==
    LET wordDuration == WordDuration(t0, t1, n)
        wordStart == RatAdd(Seconds(t0), RatScale(wordDuration, k, 1))
        wordEnd == RatAdd(wordStart, wordDuration)
        start == ClampedStart(wordStart)
    IN  [start |-> start, end |-> ClampedEnd(start, wordEnd)]

\* Segment limits the recognizer may report, in centiseconds: inside the
\* chunk, at its ends, before and after it, in either order.
SegmentTimes == {-50, 0, 100, 103, 300, 496, 500, 600}

\* the block "Distribute words across segment"
ExtractWords ==
    /\ extractPc = "ready"
    /\ extractedWords' =
          IF segmentWords = 0 THEN <<>>
          ELSE [k \in 1 .. segmentWords |->
                   WordTiming(segmentStart, segmentEnd, segmentWords, k - 1)]
    /\ extractPc' = "done"
    /\ UNCHANGED <<segmentStart, segmentEnd, segmentWords>>
    /\ UNCHANGED <<configVars, engineVars, alignVars, patch, captureVars, handoffVars,
                   delayVars, cursorVars, controlVars, syncVars, workerVars, audioPc,
                   workerPc>>

InitWords ==
    /\ Constructed
    /\ originalSegments = <<>>
    /\ lyricsWords = <<>>
    /\ alignments = <<>>
    /\ correctedSegments = <<>>
    /\ alignPc = "idle"
    /\ segmentStart \in SegmentTimes
    /\ segmentEnd \in SegmentTimes
    /\ segmentWords \in 0 .. MaxSegmentWords
    /\ extractedWords = <<>>
    /\ extractPc = "ready"

NextWords == ExtractWords

SpecWords == InitWords /\ [][NextWords]_vars


\* ================================================================== claims
LogEntries == { frameLog[k] : k \in 1 .. Len(frameLog) }
Hits == { hits[k] : k \in 1 .. Len(hits) }

\* The delay D and the thresholds as the specification states them.
DelayD == InitialDelaySeconds * SampleRate
PauseMargin == (InitialDelaySeconds - 2) * SampleRate
RingLength == (InitialDelaySeconds + 10) * SampleRate
ChunkK == ChunkSeconds * SampleRate

\* C1 -- identity pass-through: as long as no hit has been patched, every
\* output frame at stream position p >= D equals, in every channel, the input
\* frame captured at p - D, and every output frame before p = D is zero.
C1_IdentityPassThrough ==
    hits = <<>> =>
        \A en \in LogEntries : \A ch \in Chans :
            en.out[ch] = IF en.pos >= DelayD
                         THEN InputSample(en.pos - DelayD, ch)
                         ELSE Zero

\* a chunk without a hit has been scanned, and delayed input is played from
\* a cell of the ring that has been written for the second time
C1_Witness ==
    /\ hits = <<>>
    /\ transcriptsLeft < MaxTranscripts
    /\ workerPc = "top"
    /\ \E en \in LogEntries : en.pos >= RingLength + DelayD /\ en.out[0] # Zero

\* C2 -- gate silence: a frame processed while the gate is Warming or Paused
\* is output as exact zero in every channel and reads nothing from the delay
\* line (the read cursor stays).
C2_GateSilence ==
    \A en \in LogEntries :
        en.after \in {"Warming", "Paused"} =>
            /\ \A ch \in Chans : en.out[ch] = Zero
            /\ en.r2 = en.r

\* a Warming frame while the cell under the read cursor holds input
C2_Witness ==
    \E en \in LogEntries :
        /\ en.after = "Warming"
        /\ en.pos > 0
        /\ delayBuffer[0][en.r] # Zero

\* C3 -- cursor ordering: with W and R counted absolutely, R <= W <= R + L
\* in every state and before every frame of a callback, and the stored
\* cursors are W mod L and R mod L.
C3_CursorOrdering ==
    /\ framesOut <= framesIn
    /\ framesIn <= framesOut + RingLength
    /\ delayWritePos = framesIn % RingLength
    /\ delayReadPos = framesOut % RingLength
    /\ \A en \in LogEntries :
          /\ en.rFrame <= en.pos
          /\ en.pos <= en.rFrame + RingLength
          /\ en.w = en.pos % RingLength
          /\ en.r = en.rFrame % RingLength

\* both cursors have gone around the ring and the fill stands at the initial
\* delay
C3_Witness ==
    /\ framesOut > RingLength
    /\ framesIn - framesOut = DelayD
    /\ delayReadPos < delayWritePos

\* C4 -- chunk alignment (the claim as stated): sample i of the chunk handed
\* to the worker is the mono downmix of the input frame written to the delay
\* line at ring position (chunkStartPos + i) mod L, chunkStartPos being
\* chunkEndPos - K.
C4_ChunkAlignment ==
    lastChunk.n > 0 =>
        \A i \in 0 .. (ChunkK - 1) :
            /\ lastChunk.src[i] # -1
            /\ processingBuffer[i] = MonoSample(lastChunk.src[i])

\* C5 -- single hit in Mute mode (the claim as stated): once the only hit
\* has been patched ahead of the reader, the output frames of the hit's
\* padded span of its chunk, delayed by D, are zero in every channel and
\* every other output frame is the delayed input frame.
C5_SingleHitMute ==
    (Len(hits) = 1 /\ hits[1].mode = "Mute" /\ ~hits[1].late /\ ~hits[1].readerPast) =>
        \A en \in LogEntries : \A ch \in Chans :
            en.pos >= DelayD =>
                LET q == en.pos - DelayD
                    inSpan == /\ hits[1].chunk + hits[1].s <= q
                              /\ q < hits[1].chunk + hits[1].e
                IN  en.out[ch] = IF inSpan THEN Zero ELSE InputSample(q, ch)

\* C6 -- gate transitions: the gate leaves Warming exactly at the first frame
\* whose fill reaches D and never returns; Playing -> Paused only below the
\* pause margin, Paused -> Playing only at D or more; nothing else changes
\* the state, also between callbacks.
C6_GateTransitions ==
    /\ \A en \in LogEntries :
          /\ en.before = "Warming" =>
                en.after = (IF en.fill >= DelayD THEN "Playing" ELSE "Warming")
          /\ en.after = "Warming" => en.before = "Warming"
          /\ en.before = "Playing" =>
                en.after = (IF en.fill < PauseMargin THEN "Paused" ELSE "Playing")
          /\ en.before = "Paused" =>
                en.after = (IF en.fill >= DelayD THEN "Playing" ELSE "Paused")
    /\ \A k \in 1 .. (Len(frameLog) - 1) : frameLog[k + 1].before = frameLog[k].after
    /\ frameLog # <<>> =>
          frameLog[Len(frameLog)].after = GateState(playbackStarted, wasPaused)
    /\ frameLog = <<>> => GateState(playbackStarted, wasPaused) = "Warming"

\* the frame at which the gate opens
C6_Witness ==
    \E en \in LogEntries :
        en.before = "Warming" /\ en.after = "Playing" /\ en.fill = DelayD

\* C7 -- cursor advancement: every frame moves the write cursor by one
\* (mod L); the read cursor moves by one (mod L) when the frame is Playing and
\* stays otherwise; frames follow one another without a gap or a step back.
C7_CursorAdvancement ==
    /\ \A en \in LogEntries :
          /\ en.w2 = (en.w + 1) % RingLength
          /\ en.r2 = (IF en.after = "Playing" THEN (en.r + 1) % RingLength ELSE en.r)
    /\ \A k \in 1 .. (Len(frameLog) - 1) :
          /\ frameLog[k + 1].w = frameLog[k].w2
          /\ frameLog[k + 1].r = frameLog[k].r2
          /\ frameLog[k + 1].pos = frameLog[k].pos + 1
          /\ frameLog[k + 1].rFrame =
                frameLog[k].rFrame + (IF frameLog[k].after = "Playing" THEN 1 ELSE 0)
    /\ frameLog # <<>> =>
          /\ delayWritePos = frameLog[Len(frameLog)].w2
          /\ delayReadPos = frameLog[Len(frameLog)].r2
          /\ framesIn = frameLog[Len(frameLog)].pos + 1

\* a callback, after the write cursor has gone around the ring, with a
\* Playing frame at which the read cursor steps from L - 1 to 0
C7_Witness ==
    /\ framesIn > RingLength
    /\ \E en \in LogEntries :
          /\ en.after = "Playing"
          /\ en.r = RingLength - 1
          /\ en.r2 = 0
          /\ en.w2 = en.w + 1


\* C8 -- bigram rule (the claim as stated): within a chunk no word index
\* belongs to two hits; a word that is a single-word hit is not also the
\* first word of a bigram hit.
C8_BigramExclusive ==
    \A j, k \in 1 .. Len(hits) :
        (j # k /\ hits[j].chunk = hits[k].chunk) =>
            hits[j].words \cap hits[k].words = {}

\* the ring cells of the chunk whose first cell is chunkStartPos
ChunkCells(chunkStartPos) ==
    { p \in Ring : (p - chunkStartPos + RingLength) % RingLength < ChunkK }

\* C9 -- chunk-boundary clamp: whatever the word timestamps, the padded frame
\* range [s, e) of every hit satisfies 0 <= s <= e <= K, and every ring cell
\* the hit writes lies in the chunk's range [chunkEndPos - K, chunkEndPos).
C9_ClampToChunk ==
    \A h \in Hits :
        /\ 0 <= h.s
        /\ h.s <= h.e
        /\ h.e <= ChunkK
        /\ h.chunkStartPos = (h.chunkEndPos - ChunkK + RingLength) % RingLength
        /\ h.cells \subseteq ChunkCells(h.chunkStartPos)

\* a hit on a word that starts before the chunk and ends after it, clamped
\* to the whole chunk
C9_Witness ==
    /\ workerPc = "scan"
    /\ Len(transcribedWords) = 1
    /\ transcribedWords[1].start < 0
    /\ transcribedWords[1].end > 10 * ChunkSeconds
    /\ \E h \in Hits : h.s = 0 /\ h.e = ChunkK /\ Cardinality(h.cells) = ChunkK

\* the ring cells of chunk samples s .. e-1
SpanCells(chunkStartPos, s, e) ==
    { p \in Ring :
        LET i == (p - chunkStartPos + RingLength) % RingLength
        IN  s <= i /\ i < e }

\* C10 -- patch containment: a scan step that patches [s, e) leaves every
\* delay-line cell outside ring indices (chunkStartPos + i) mod L, s <= i < e,
\* as it was, in every channel, also when the range wraps; it writes just
\* those indices: a Mute leaves each of them zero, a Reverse of up to three
\* frames leaves in each half the sample of its mirror index.
C10_PatchContainment ==
    [][ (workerPc = "scan" /\ workerPc' = "scan" /\ idx' # idx) =>
          LET new == SubSeq(hits', Len(hits) + 1, Len(hits'))
              span(k) == SpanCells(new[k].chunkStartPos, new[k].s, new[k].e)
              touched == UNION { span(k) : k \in 1 .. Len(new) }
          IN  /\ \A k \in 1 .. Len(new) : new[k].cells = span(k)
              /\ \A ch \in Chans : \A p \in Ring \ touched :
                    delayBuffer'[ch][p] = delayBuffer[ch][p]
              /\ censorMode = "Mute" =>
                    \A ch \in Chans : \A p \in touched : delayBuffer'[ch][p] = Zero
              /\ (censorMode = "Reverse" /\ Len(new) = 1 /\ new[1].e - new[1].s <= 3) =>
                    \A ch \in Chans : \A i \in new[1].s .. (new[1].e - 1) :
                        LET c == new[1].chunkStartPos
                            m == new[1].s + new[1].e - 1 - i
                        IN  RatScale(delayBuffer'[ch][(c + i) % RingLength], 2, 1)
                              = delayBuffer[ch][(c + m) % RingLength]
      ]_vars

\* a patch whose cells lie on both sides of the end of the ring, in each mode
C10_Witness ==
    /\ \E h \in Hits :
          /\ h.mode = censorMode
          /\ (RingLength - 1) \in h.cells
          /\ 0 \in h.cells
          /\ \A ch \in Chans : censorMode = "Mute" => delayBuffer[ch][0] = Zero
    /\ workerPc = "scan"


\* C11 -- censor miss truncation (the claim as stated): a patch applied after
\* the read cursor has passed its start writes no delay-line position that has
\* already been output.
C11_MissTruncation ==
    \A h \in Hits : ~h.late

\* C12 -- patch targets a valid region (the claim as stated): whatever the
\* latency of the recognizer, every ring cell a patch writes holds, when it is
\* written, a frame of the chunk being censored.
C12_PatchValidRegion ==
    \A h \in Hits : \A f \in h.held :
        h.chunk <= f /\ f < h.chunk + ChunkK

\* C13 -- handoff guard: the callback goes for the mutex only with
\* sinceLastChunk >= K and hasNewBuffer false; the handoff copies the capture
\* buffer to the processing buffer, records the write cursor, raises
\* hasNewBuffer, notifies a waiting worker and resets the count and the capture
\* position; any other callback leaves the mutex, the processing buffer, the
\* recorded position and the flag alone and keeps counting.
C13_HandoffGuard ==
    [][ /\ (audioPc = "idle" /\ audioPc' = "lock") =>
              (transcriptionInterval' >= ChunkK /\ ~hasNewBuffer)
        /\ (audioPc = "lock" /\ audioPc' = "idle") =>
              /\ transcriptionInterval >= ChunkK
              /\ ~hasNewBuffer
              /\ bufferMutex = "free"
              /\ processingBuffer' = audioBuffer
              /\ bufferCaptureTime' = delayWritePos
              /\ hasNewBuffer'
              /\ workerPc = "waiting" => wakeup'
              /\ transcriptionInterval' = 0
              /\ bufferWritePos' = 0
        /\ (audioPc = "idle" /\ audioPc' = "idle" /\ framesIn' # framesIn) =>
              /\ transcriptionInterval' < ChunkK \/ hasNewBuffer
              /\ transcriptionInterval' = transcriptionInterval + period
              /\ UNCHANGED <<processingBuffer, bufferCaptureTime, hasNewBuffer,
                             bufferMutex, wakeup>>
      ]_vars

\* a callback that found a full count but the snapshot still pending, after a
\* handoff of a whole chunk
C13_Witness ==
    /\ audioPc = "idle"
    /\ hasNewBuffer
    /\ transcriptionInterval >= ChunkK
    /\ lastChunk.n = ChunkK
    /\ bufferCaptureTime = lastChunk.endPos

\* C14 -- real-time discipline (the claim as stated): the callback is never
\* at its lock_guard while the worker holds the mutex.
C14_NoContention ==
    ~(audioPc = "lock" /\ bufferMutex = "worker")

\* C15 -- exactly-once chunk transfer: a snapshot is pending exactly when the
\* last handoff has not been taken; while it is pending the callback changes
\* neither the processing buffer nor the recorded position; a handoff comes
\* only after the previous one was taken; the worker's buffer and capture
\* time change only at a take, both from the pending handoff, which is a
\* chunk it has not had before.
C15_ExactlyOnce ==
    /\ [](hasNewBuffer <=> (lastChunk.n > 0 /\ localFirst # lastChunk.first))
    /\ [][ /\ (hasNewBuffer /\ hasNewBuffer') =>
                 UNCHANGED <<processingBuffer, bufferCaptureTime, lastChunk>>
           /\ (~hasNewBuffer /\ hasNewBuffer') =>
                 /\ lastChunk.n > 0 => localFirst = lastChunk.first
                 /\ lastChunk'.first > lastChunk.first
           /\ (hasNewBuffer /\ ~hasNewBuffer') =>
                 /\ bufferCaptureTime = lastChunk.endPos
                 /\ captureTime' = bufferCaptureTime
                 /\ localBuffer' = processingBuffer
                 /\ localFirst' = lastChunk.first
                 /\ localFirst' # localFirst
                 /\ \A i \in 0 .. (ChunkK - 1) :
                       localBuffer'[i] = MonoSample(lastChunk.first + i)
           /\ ~(hasNewBuffer /\ ~hasNewBuffer') =>
                 UNCHANGED <<localBuffer, captureTime, localFirst>>
         ]_vars

\* the worker holds the second chunk while a third is pending
C15_Witness ==
    /\ workerPc = "recog"
    /\ localFirst > 0
    /\ hasNewBuffer
    /\ lastChunk.first > localFirst

\* C16 -- deferred handoff (the claim as stated): no chunk is handed off
\* while the worker is still recognizing or censoring the previous one.
C16_DeferredUntilDone ==
    ~(hasNewBuffer /\ workerPc \in {"recog", "scan"})

\* C17 -- capture buffer during a stall (the claim as stated): a chunk handed
\* off after a deferral holds the K most recent downmixed frames before the
\* handoff (counted with or without the frames of the handoff's own callback).
C17_MostRecentFrames ==
    (lastChunk.n > 0 /\ lastChunk.interval >= ChunkK + period) =>
        \E last \in {lastChunk.endFrame, lastChunk.endFrame + period} :
            \A i \in 0 .. (ChunkK - 1) :
                processingBuffer[i] = MonoSample(last - ChunkK + i)

\* C18 -- cancellation (the claim as stated): when stop() has returned, the
\* stop flag is set and no worker is running.
C18_Cancellation ==
    stopPc = "returned" => (shouldStopThread /\ workerPc = "exited")

WorkerStep == workerPc' # workerPc \/ idx' # idx

\* C22 -- recognizer stall tolerance: whatever the worker does or fails to
\* do, a gate that is Playing stays Playing; a callback entered while Playing
\* reads one delay-line frame for each input frame it writes; and no step of
\* the worker changes the gate state, W or R.
C22_StallTolerance ==
    [][ /\ GateState(playbackStarted, wasPaused) = "Playing" =>
              /\ GateState(playbackStarted', wasPaused') = "Playing"
              /\ framesOut' - framesOut = framesIn' - framesIn
              /\ framesIn' # framesIn =>
                    /\ framesIn' - framesIn = period
                    /\ Len(frameLog') = period
                    /\ \A k \in 1 .. Len(frameLog') :
                          /\ frameLog'[k].before = "Playing"
                          /\ frameLog'[k].after = "Playing"
                          /\ frameLog'[k].r2 = (frameLog'[k].r + 1) % RingLength
                          /\ \A ch \in Chans :
                                frameLog'[k].out[ch] = delayBuffer'[ch][frameLog'[k].r]
        /\ WorkerStep =>
              UNCHANGED <<playbackStarted, wasPaused, delayWritePos, delayReadPos,
                          framesIn, framesOut>>
      ]_vars

\* the recognizer has not returned since it took its chunk, the next chunk
\* has been pending for a chunk's length or more, and the gate is Playing
\* with frames already played
C22_Witness ==
    /\ workerPc = "recog"
    /\ hasNewBuffer
    /\ transcriptionInterval >= ChunkK
    /\ GateState(playbackStarted, wasPaused) = "Playing"
    /\ framesOut >= 3
    /\ \A en \in LogEntries : en.before = "Playing" /\ en.out[0] # Zero

\* C23 -- steady-state fill: once the gate has opened, the fill W - R at the
\* end of every callback is within one frame of D, counted absolutely and as
\* the stored cursors give it.
C23_SteadyFill ==
    playbackStarted =>
        /\ Abs((framesIn - framesOut) - DelayD) <= 1
        /\ Abs(((delayWritePos - delayReadPos + RingLength) % RingLength) - DelayD) <= 1

\* the last callback's frames were all played and the fill stands at D
C23_Witness ==
    /\ playbackStarted
    /\ framesOut >= period
    /\ frameLog # <<>>
    /\ \A en \in LogEntries : en.before = "Playing"
    /\ framesIn - framesOut = DelayD

\* whether a word, and a pair of words joined, is in the lexicon
Listed(w) == containsProfanity(normalizeText(w.word))
ListedPair(w, next) == containsProfanity(normalizeText(w.word \o next.word))

\* word i (0-based) of ws matches nothing, alone or joined to its successor
NoMatchAt(ws, i) ==
    /\ ~Listed(ws[i + 1])
    /\ i + 1 < Len(ws) => ~ListedPair(ws[i + 1], ws[i + 2])

\* C24 -- no hit, no effect: a recognition that fails, a recognition that
\* returns (with or without words), a scan step on a word that matches nothing
\* and the end of the scan leave every delay-line sample, W, R and
\* profanityCount as they were.
C24_NoHitNoOp ==
    [][ ( \/ (workerPc = "recog" /\ workerPc' # "recog")
          \/ (workerPc = "scan" /\ workerPc' = "top")
          \/ (/\ workerPc = "scan" /\ idx' # idx /\ idx < Len(transcribedWords)
              /\ NoMatchAt(transcribedWords, idx)) ) =>
            /\ UNCHANGED <<delayBuffer, delayWritePos, delayReadPos, framesIn,
                           framesOut, profanityCount, hits>>
            /\ workerPc = "scan" /\ workerPc' = "scan" => idx' = idx + 1
      ]_vars

\* a chunk whose words matched nothing has been scanned to its end, with
\* input in the delay line
C24_Witness ==
    /\ workerPc = "top"
    /\ transcriptsLeft < MaxTranscripts
    /\ hits = <<>>
    /\ profanityCount = 0
    /\ framesIn >= ChunkK
    /\ delayBuffer[0][0] # Zero

\* C25 -- initialization failure is fatal: once initialize() has returned
\* false, lastError is set (to the cause, until a start() replaces it), no
\* start() has returned true, the engine is not running and neither thread
\* has been launched.
C25_InitFailureFatal ==
    initResult = "failed" =>
        /\ engineLastError # ""
        /\ startResult = "none" =>
              engineLastError \in {"capture", "playback", "processor"}
        /\ engineLastError = "processor" => processorLastError \in {"lexicon", "model"}
        /\ startResult # "ok"
        /\ ~running
        /\ audioPc = "off"
        /\ workerPc = "off"

\* start() has been called after an initialize() that failed in the
\* processor, the processor object left in place
C25_Witness ==
    /\ initResult = "failed"
    /\ processor
    /\ processorLastError = "model"
    /\ startResult = "refused"
    /\ engineLastError = "notInitialized"

\* the hits a scan step adds
NewHits == SubSeq(hits', Len(hits) + 1, Len(hits'))

\* C26 -- Mute idempotence: the Mute patch applied again to the span a scan
\* step has just muted leaves the delay line as that step left it, whatever
\* the span (wrapping, empty); and at such a step a second application after
\* a first changes nothing on any span of the chunk being scanned.
C26_MuteIdempotence ==
    [][ (workerPc = "scan" /\ idx' # idx /\ censorMode = "Mute" /\ NewHits # <<>>) =>
          /\ \A k \in 1 .. Len(NewHits) :
                ApplyCensor(delayBuffer', "Mute", NewHits[k].chunkStartPos,
                            NewHits[k].s, NewHits[k].e) = delayBuffer'
          /\ \A s \in 0 .. ChunkK : \A e \in s .. ChunkK :
                LET c == ChunkStartPos(captureTime, TranscribeFrames)
                    once == ApplyCensor(delayBuffer, "Mute", c, s, e)
                IN  ApplyCensor(once, "Mute", c, s, e) = once
      ]_vars

\* a Mute hit whose span runs over the end of the ring has zeroed a cell that
\* held input
C26_Witness ==
    /\ censorMode = "Mute"
    /\ workerPc = "scan"
    /\ idx > 0
    /\ \E h \in Hits :
          /\ h.mode = "Mute"
          /\ (RingLength - 1) \in h.cells
          /\ \E p \in h.cells :
                cellFrame[p] # -1 /\ \A ch \in Chans : delayBuffer[ch][p] = Zero

\* C27 -- bigram span: a scan step on words i, i+1 that are listed only when
\* joined adds exactly one hit, for both words, with the frame range
\* [clamp((start_i - 0.4 s) F), clamp((end_{i+1} + 0.1 s) F)) of the chunk,
\* writes just the ring cells of that range, raises profanityCount by one and
\* passes over word i+1.
C27_BigramSpan ==
    [][ (/\ workerPc = "scan" /\ idx' # idx /\ idx + 1 < Len(transcribedWords)
         /\ ~Listed(transcribedWords[idx + 1])
         /\ ~Listed(transcribedWords[idx + 2])
         /\ ListedPair(transcribedWords[idx + 1], transcribedWords[idx + 2])) =>
          LET first == transcribedWords[idx + 1]
              second == transcribedWords[idx + 2]
              lo == Max(0, Min(TruncDiv((first.start - 4) * SampleRate, 10), ChunkK))
              hi == Max(lo, Min(TruncDiv((second.end + 1) * SampleRate, 10), ChunkK))
              c == (captureTime - ChunkK + RingLength) % RingLength
          IN  /\ Len(NewHits) = 1
              /\ NewHits[1].kind = "bigram"
              /\ NewHits[1].words = {idx, idx + 1}
              /\ NewHits[1].s = lo
              /\ NewHits[1].e = hi
              /\ NewHits[1].cells = SpanCells(c, lo, hi)
              /\ profanityCount' = profanityCount + 1
              /\ idx' = idx + 2
              /\ \A ch \in Chans : \A p \in Ring \ SpanCells(c, lo, hi) :
                    delayBuffer'[ch][p] = delayBuffer[ch][p]
              /\ censorMode = "Mute" =>
                    \A ch \in Chans : \A p \in SpanCells(c, lo, hi) :
                        delayBuffer'[ch][p] = Zero
      ]_vars

\* the pair "holy" "cow!" has been patched as one hit and the scan is past
\* both words
C27_Witness ==
    /\ workerPc = "scan"
    /\ Len(transcribedWords) = 2
    /\ idx = 2
    /\ ~Listed(transcribedWords[1])
    /\ ~Listed(transcribedWords[2])
    /\ Len(hits) = 1
    /\ hits[1].kind = "bigram"
    /\ hits[1].e > hits[1].s
    /\ profanityCount = 1

\* a fade gain that is the same at offsets i and n - 1 - i, as <<numerator,
\* denominator>>, the halving included
SymmetricGain(i, n, fade) ==
    IF fade = 0 THEN <<1, 2>>
    ELSE IF i < fade THEN <<i, 2 * fade>>
    ELSE IF i >= n - fade THEN <<n - 1 - i, 2 * fade>>
    ELSE <<1, 2>>

\* C28 -- Reverse patch (the claim as stated): after a Reverse patch of n
\* frames the sample at span offset i is the earlier sample of offset
\* n - 1 - i of the same channel times 0.5 times a linear fade over
\* min(480, n div 4) frames that is symmetric between the two ends.
C28_ReversePatch ==
    [][ (/\ workerPc = "scan" /\ idx' # idx /\ censorMode = "Reverse"
         /\ Len(NewHits) = 1) =>
          LET h == NewHits[1]
              n == h.e - h.s
              fade == Min(480, n \div 4)
          IN  \A ch \in Chans : \A i \in 0 .. (n - 1) :
                  delayBuffer'[ch][(h.chunkStartPos + h.s + i) % RingLength]
                    = RatScale(delayBuffer[ch][(h.chunkStartPos + h.s + n - 1 - i)
                                                   % RingLength],
                               SymmetricGain(i, n, fade)[1],
                               SymmetricGain(i, n, fade)[2])
      ]_vars

\* the frames of the last callback that were read from a cell of the span
\* being patched while some channel of that cell was still to be written
LeakedInCallback(pt, log) ==
    { k \in 1 .. Len(log) :
        /\ log[k].after = "Playing"
        /\ log[k].rFrame \in pt.frames
        /\ \E ch \in Chans : <<ch, log[k].r>> \notin pt.written }

\* C29 -- benign patch/reader race (the claim as stated): when a censor loop
\* began with the read cursor at or before the first frame of its span, a
\* callback that runs before the loop has ended outputs at most one frame of
\* the span that is not yet censored in every channel.
C29_BenignRace ==
    [][ (/\ workerPc = "patch"
         /\ framesOut' # framesOut
         /\ patch.frames # {}
         /\ \A f \in patch.frames : f >= patch.startOut) =>
            Cardinality(LeakedInCallback(patch, frameLog')) <= 1 ]_vars

\* C30 -- lyrics alignment output: backtrackAlignment returns one segment for
\* each lyric word, in order, with the lyric word as text; a lyric word paired
\* with a transcribed word (equal or not) has that word's start and end, the
\* paired transcribed words coming in order; a lyric word with no counterpart
\* starts where the segment before it ends (at 0 if it is the first) and lasts
\* 0.3 s; a transcribed word that is paired with no lyric word gives no
\* segment.
C30_AlignmentOutput ==
    alignPc = "done" =>
        /\ Len(alignments) = Len(lyricsWords)
        /\ Len(correctedSegments) = Len(lyricsWords)
        /\ \A k \in 1 .. Len(alignments) :
              LET t == alignments[k][1]
                  seg == correctedSegments[k]
              IN  /\ alignments[k][2] = k - 1
                  /\ seg.word = lyricsWords[k]
                  /\ t \in -1 .. (Len(originalSegments) - 1)
                  /\ t >= 0 =>
                        /\ seg.start = originalSegments[t + 1].start
                        /\ seg.end = originalSegments[t + 1].end
                  /\ t = -1 =>
                        /\ seg.start = (IF k = 1 THEN 0 ELSE correctedSegments[k - 1].end)
                        /\ seg.end = seg.start + 3
        /\ \A j, k \in 1 .. Len(alignments) :
              (j < k /\ alignments[j][1] >= 0 /\ alignments[k][1] >= 0) =>
                  alignments[j][1] < alignments[k][1]

\* an alignment with a substitution, a match and, after them, an insertion
\* timed from the end of the segment before it
C30_Witness ==
    /\ alignPc = "done"
    /\ \E k \in 1 .. Len(alignments) :
          /\ alignments[k][1] >= 0
          /\ normalizeText(originalSegments[alignments[k][1] + 1].word) # lyricsWords[k]
          /\ correctedSegments[k].word = lyricsWords[k]
    /\ \E k \in 2 .. Len(alignments) :
          /\ alignments[k][1] = -1
          /\ alignments[k - 1][1] >= 0
          /\ correctedSegments[k].start = originalSegments[alignments[k - 1][1] + 1].end
          /\ correctedSegments[k].start > 0

\* C31: every word synthesized from a recognizer segment has its start and
\* its end in [0, chunkSeconds] and lasts at least 0.05 s, and the words whose
\* times needed no clamping follow one another at (t1 - t0) / wordCount.
C31_SynthesizedTimings ==
    extractPc = "done" =>
        /\ Len(extractedWords) = segmentWords
        /\ \A k \in 1 .. Len(extractedWords) :
              LET w == extractedWords[k]
                  limit == Rat(ChunkSeconds, 1)
              IN  /\ RatLeq(Zero, w.start) /\ RatLeq(w.start, limit)
                  /\ RatLeq(Zero, w.end) /\ RatLeq(w.end, limit)
                  /\ RatLeq(RatAdd(w.start, Seconds(MinWordHundredths)), w.end)
        /\ \A k \in 1 .. (Len(extractedWords) - 1) :
              LET d == WordDuration(segmentStart, segmentEnd, segmentWords)
                  raw == RatAdd(Seconds(segmentStart), RatScale(d, k - 1, 1))
                  rawNext == RatAdd(raw, d)
                  inside(t) == RatLeq(Zero, t) /\ RatLeq(t, Rat(ChunkSeconds, 1))
              IN  inside(raw) /\ inside(rawNext) =>
                     RatSub(extractedWords[k + 1].start, extractedWords[k].start) = d

\* C32: the Whisper thread holds bufferMutex only from its lock to the wait
\* (the predicate) and from the wake-up through the copy of the chunk, the
\* read of the recorded position and the clearing of hasNewBuffer; it never
\* holds it in processTranscription() (filter, resampling, recognizer, censor).
C32_MutexScope ==
    /\ bufferMutex = "worker" => workerPc \in {"pred", "unlock"}
    /\ workerPc \in {"recog", "scan", "top", "waiting"} => bufferMutex # "worker"
    /\ workerPc = "unlock" => (bufferMutex = "worker" /\ ~hasNewBuffer
                                /\ captureTime = bufferCaptureTime)

\* a chunk has been handed off while the worker was in the recognizer
C32_Witness ==
    /\ workerPc = "recog"
    /\ hasNewBuffer
    /\ bufferMutex = "free"

\* C33: a chunk handed off (hasNewBuffer raised) is in the end copied by the
\* Whisper thread, which clears hasNewBuffer; a thread waiting on bufferReady
\* with hasNewBuffer raised has its notification pending and leaves the wait.
C33_NoLostWakeup ==
    /\ [](workerPc = "waiting" /\ hasNewBuffer => wakeup)
    /\ hasNewBuffer ~> ~hasNewBuffer
    /\ [][hasNewBuffer /\ ~hasNewBuffer' =>
              /\ workerPc = "pred" /\ workerPc' = "unlock"
              /\ localFirst' = lastChunk.first
              /\ captureTime' = bufferCaptureTime]_vars
    /\ (workerPc = "waiting" /\ hasNewBuffer) ~> (workerPc # "waiting")

\* a second chunk is handed off while the worker waits on bufferReady
C33_Witness ==
    /\ hasNewBuffer
    /\ workerPc = "waiting"
    /\ wakeup
    /\ lastChunk.first > 0

\* a step of process(): the callback begins, or goes on from its lock
CallbackStep ==
    /\ audioPc \in {"idle", "lock"}
    /\ audioPc' \in {"idle", "lock"}
    /\ transcriptionInterval' # transcriptionInterval \/ audioPc' # audioPc

\* C34: a callback runs only in a session whose processor->start() has reset
\* the processor and launched the Whisper thread, the first callback comes
\* after that start, and processor->stop() and the destruction of the
\* processor come only when the audio thread has left its function and been
\* joined: no callback runs during or after them.
C34_LifecycleOrdering ==
    [][/\ CallbackStep =>
             /\ initResult = "ok" /\ running
             /\ processorStartResult = "ok"
             /\ WhisperJoinable(workerPc)
             /\ stopPc = "none"
             /\ enginePc \in {"none", "join", "dtorJoin"}
       /\ (audioPc = "off" /\ audioPc' # "off") =>
             /\ audioPc' = "idle"
             /\ processorStartResult' = "ok" /\ workerPc' = "top"
             /\ delayWritePos' = 0 /\ delayReadPos' = 0 /\ ~playbackStarted'
             /\ bufferWritePos' = 0 /\ transcriptionInterval' = 0
             /\ profanityCount' = 0 /\ ~hasNewBuffer'
       /\ stopPc' # stopPc => (audioPc = "exited" /\ audioPc' \notin {"idle", "lock"})
       /\ (processor /\ ~processor') => audioPc \notin {"idle", "lock"}
       /\ stopPc' # "none" => audioPc' \notin {"idle", "lock"}]_vars

\* a session that ran callbacks has been stopped
C34_Witness ==
    /\ stopPc = "returned"
    /\ audioPc = "joined"
    /\ ~running
    /\ enginePc = "none"
    /\ framesIn > 0
    /\ lastChunk.n > 0

\* AudioProcessor::start() is entered: AlsaAudioEngine::start got past its tests
ProcessorStartCalled == enginePc = "none" /\ ~running /\ running'

\* C35: AudioProcessor::start() returns false with "Already running" exactly
\* when a Whisper thread of the processor is running, and otherwise resets
\* the cursors, the gate and the counters and launches one Whisper thread.
C35_StartGuard ==
    [][ProcessorStartCalled =>
          IF WhisperJoinable(workerPc)
          THEN /\ processorStartResult' = "refused"
               /\ processorLastError' = "alreadyRunning"
               /\ workerPc' = workerPc
               /\ enginePc' = "none"
          ELSE /\ processorStartResult' = "ok"
               /\ workerPc' = "top"
               /\ delayWritePos' = 0 /\ delayReadPos' = 0 /\ ~playbackStarted'
               /\ bufferWritePos' = 0 /\ transcriptionInterval' = 0
               /\ profanityCount' = 0]_vars

\* The word-level Levenshtein distance, from its definition: the least number
\* of unit-cost edits, that is the length of a shortest path in the edit
\* graph of the two sequences, whose node <<i, j>> stands for "the first i
\* words of a turned into the first j words of b".
\* nodes reached from S at no cost: equal words are kept
RECURSIVE KeepClosure(_, _, _)
KeepClosure(S, a, b) ==
    LET T == S \cup { <<q[1] + 1, q[2] + 1>> :
                        q \in { r \in S : /\ r[1] < Len(a) /\ r[2] < Len(b)
                                           /\ a[r[1] + 1] = b[r[2] + 1] } }
    IN  IF T = S THEN S ELSE KeepClosure(T, a, b)

\* nodes reached from S by one edit: a word deleted, inserted or substituted
OneEdit(S, a, b) ==
    S \cup { <<q[1] + 1, q[2]>> : q \in { r \in S : r[1] < Len(a) } }
      \cup { <<q[1], q[2] + 1>> : q \in { r \in S : r[2] < Len(b) } }
      \cup { <<q[1] + 1, q[2] + 1>> :
                q \in { r \in S : r[1] < Len(a) /\ r[2] < Len(b) } }

\* layers[k + 1]: the nodes within k edits of <<0, 0>>
RECURSIVE EditLayers(_, _, _)
EditLayers(layers, a, b) ==
    IF Len(layers) > Len(a) + Len(b) THEN layers
    ELSE EditLayers(Append(layers,
                           KeepClosure(OneEdit(layers[Len(layers)], a, b), a, b)),
                    a, b)

Levenshtein(layers, i, j) ==
    CHOOSE k \in 0 .. (Len(layers) - 1) :
        /\ <<i, j>> \in layers[k + 1]
        /\ k > 0 => <<i, j>> \notin layers[k]

\* C36: calculateEditDistance returns a matrix of (m+1) rows and (n+1)
\* columns whose entry [i][j] is the Levenshtein distance between the first
\* i words of seq1 and the first j words of seq2.
C36_EditDistanceMatrix ==
    alignPc \in {"done", "returned"} =>
        LET seq1 == TranscribedText(originalSegments)
            seq2 == lyricsWords
            matrix == calculateEditDistance(seq1, seq2)
            layers == EditLayers(<<KeepClosure({<<0, 0>>}, seq1, seq2)>>, seq1, seq2)
        IN  /\ DOMAIN matrix = 0 .. Len(seq1)
            /\ \A i \in 0 .. Len(seq1) :
                  /\ DOMAIN matrix[i] = 0 .. Len(seq2)
                  /\ \A j \in 0 .. Len(seq2) :
                        matrix[i][j] = Levenshtein(layers, i, j)

\* the matrix of two sequences that share a word and differ in others, with
\* an entry smaller than both lengths
C36_Witness ==
    /\ alignPc = "done"
    /\ Len(originalSegments) = MaxTranscribedWords
    /\ Len(lyricsWords) = MaxLyricsWords
    /\ LET seq1 == TranscribedText(originalSegments)
           matrix == calculateEditDistance(seq1, lyricsWords)
       IN  /\ matrix[Len(seq1)][Len(lyricsWords)] = 2
           /\ seq1[1] # lyricsWords[1]
           /\ \E i \in 1 .. Len(seq1), j \in 1 .. Len(lyricsWords) : seq1[i] = lyricsWords[j]

\* C37: backtrackAlignment ends (every iteration of its loop moves i or j),
\* the segments it returns carry the lyric words in lyric order, one segment
\* per lyric word, and their start times never decrease.
C37_AlignmentOrder ==
    alignPc = "done" =>
        /\ \A k \in 1 .. Len(alignments) : alignments[k] # <<-2, -2>>
        /\ Len(correctedSegments) = Len(lyricsWords)
        /\ \A k \in 1 .. Len(correctedSegments) :
              correctedSegments[k].word = lyricsWords[k]
        /\ \A k \in 1 .. (Len(correctedSegments) - 1) :
              correctedSegments[k].start <= correctedSegments[k + 1].start

\* C39: the patches of two different hits of one chunk have no delay-line
\* frame in common, so that no frame is transformed twice; stated here for
\* hits that have no word in common (a word hit alone and again in a pair is
\* the case of C8).
C39_DisjointPatches ==
    \A a \in 1 .. Len(hits) : \A b \in 1 .. Len(hits) :
        (a < b /\ hits[a].chunk = hits[b].chunk
               /\ hits[a].words \cap hits[b].words = {}) =>
            hits[a].cells \cap hits[b].cells = {}

\* C38: each hit counted in profanityCount has its range patched, by the
\* Mute or by the Reverse loops, whatever setCensorMode() calls come between.
C38_CountedIsCensored ==
    [][(workerPc \in {"mode1", "mode2"} /\ workerPc' \notin {"mode1", "mode2"}) =>
          \E mode \in CensorModes :
             delayBuffer' = ApplyCensor(delayBuffer, mode, patch.c, patch.s, patch.e)]_vars

====
